---------------------------- MODULE Spec2Model ----------------------------
(***************************************************************************)
(* A model of the msgpack-serde codec: the serializer (src/src/ser/*.rs)   *)
(* and the deserializer (src/src/de/mod.rs, src/src/de/array.rs,           *)
(* src/src/de/map.rs).                                                     *)
(*                                                                         *)
(* Representation.  A byte is a number in 0..255 and a buffer is a         *)
(* sequence of bytes.  A 64-bit integer (u64 or i64) is a "word": its bit  *)
(* pattern as 8 big-endian bytes, two's complement for i64.  Narrower      *)
(* integers are carried widened to 64 bits exactly as the code widens them *)
(* (`v as u64`, `v as i64`).  Comparisons and casts are bit-level, so no   *)
(* number larger than a byte count is ever computed.                       *)
(***************************************************************************)
EXTENDS Integers, Sequences, FiniteSets, TLC

VARIABLES pc, value, buffer, input, shape, position, result,
          remaining, sub_buffer, pushed

vars == <<pc, value, buffer, input, shape, position, result,
          remaining, sub_buffer, pushed>>

(***************************************************************************)
(* Bounds of the model.                                                    *)
(***************************************************************************)
\* longest byte suffix appended after an encoded value
MaxSuffixLen == 1
\* longest sequence / largest map / most fields drawn as an input value
MaxElems == 2
\* the most variants an enum has
MaxVariants == 257
\* the most elements, fields or keys pushed into one sub-encoder
MaxPushed == 17

(***************************************************************************)
(* Bytes and words.                                                        *)
(***************************************************************************)
RECURSIVE Pow2(_)
Pow2(n) == IF n = 0 THEN 1 ELSE 2 * Pow2(n - 1)

Min(a, b) == IF a <= b THEN a ELSE b

\* n copies of byte b
Fill(n, b) == [i \in 1..n |-> b]

\* the last n bytes of a word: the truncating casts `v as u8/u16/u32`
\* followed by the big-endian write of byteorder
LowBytes(w, n) == SubSeq(w, Len(w) - n + 1, Len(w))

\* `x as u64` for an unsigned x of 1, 2, 4 or 8 bytes
ZeroExt(bs) == Fill(8 - Len(bs), 0) \o bs

\* `x as i64` (and `x as u64`) for a signed x of 1, 2, 4 or 8 bytes
SignExt(bs) == Fill(8 - Len(bs), IF bs[1] >= 128 THEN 255 ELSE 0) \o bs

\* the word of a small natural number (below 2^31)
FromNat(n) ==
    <<0, 0, 0, 0, (n \div 16777216) % 256, (n \div 65536) % 256,
      (n \div 256) % 256, n % 256>>

\* big-endian length fields of 1, 2 and 4 bytes for a length below 2^31
LenBytes(n, width) == LowBytes(FromNat(n), width)

\* the number a big-endian length field of at most 3 significant bytes holds
RECURSIVE ToNat(_)
ToNat(bs) ==
    IF Len(bs) = 0 THEN 0
    ELSE 256 * ToNat(SubSeq(bs, 1, Len(bs) - 1)) + bs[Len(bs)]

\* unsigned comparison of two words
U64Lt(a, b) ==
    \E i \in 1..8 : a[i] < b[i] /\ \A j \in 1..(i - 1) : a[j] = b[j]

U64Le(a, b) == a = b \/ U64Lt(a, b)

\* signed comparison of two words: unsigned comparison with the sign bit flipped
Bias(a) == [a EXCEPT ![1] = (a[1] + 128) % 256]

I64Lt(a, b) == U64Lt(Bias(a), Bias(b))

I64Le(a, b) == a = b \/ I64Lt(a, b)

\* bitwise complement of a word: -x - 1 in two's complement
Not(w) == [i \in 1..8 |-> 255 - w[i]]

\* the word 2^k, k in 0..63
Bit(k) == [i \in 1..8 |-> IF k \div 8 = 8 - i THEN Pow2(k % 8) ELSE 0]

\* the word 2^k - 1, k in 0..64
Ones(k) ==
    [i \in 1..8 |->
        LET lo == 8 * (8 - i)
        IN  IF k >= lo + 8 THEN 255
            ELSE IF k <= lo THEN 0
            ELSE Pow2(k - lo) - 1]

ZeroWord == Fill(8, 0)

\* integer limits of std, as words, for the types of n bytes: uN::MAX,
\* iN::MAX and iN::MIN
U_MAX(n) == Ones(8 * n)

I_MAX(n) == Ones(8 * n - 1)

I_MIN(n) == Not(Ones(8 * n - 1))

(***************************************************************************)
(* IEEE 754 floats as their big-endian bytes.  An f64 is split into its    *)
(* sign, its 11-bit exponent field and its 52-bit fraction as the top 23   *)
(* bits (hi) and the low 29 bits (lo); an f32 into its sign and the 31     *)
(* bits c below it, exponent field and fraction together.                  *)
(***************************************************************************)
F64Exp(w) == (w[1] % 128) * 16 + (w[2] \div 16)

F64Hi(w) == (w[2] % 16) * 524288 + w[3] * 2048 + w[4] * 8 + (w[5] \div 32)

F64Lo(w) == (w[5] % 32) * 16777216 + w[6] * 65536 + w[7] * 256 + w[8]

F32Bits(sign, c) ==
    <<sign * 128 + (c \div 16777216), (c \div 65536) % 256, (c \div 256) % 256, c % 256>>

F64Bits(sign, exp, hi, lo) ==
    <<sign * 128 + (exp \div 16), (exp % 16) * 16 + (hi \div 524288),
      (hi \div 2048) % 256, (hi \div 8) % 256, (hi % 8) * 32 + (lo \div 16777216),
      (lo \div 65536) % 256, (lo \div 256) % 256, lo % 256>>

\* round to nearest, ties to even: 1 when q and the rest are rounded up
RoundUp(q, rem, half, sticky) ==
    IF rem > half \/ (rem = half /\ (sticky \/ q % 2 = 1)) THEN 1 ELSE 0

\* `num as f32`: NaN stays NaN, a zero or an f64 subnormal becomes zero, the
\* others are rounded to 24 significant bits, or fewer below 2^-126; a
\* carry out of the fraction raises the exponent, up to infinity
narrowed(sign, exp, hi, lo) ==
    IF exp = 2047
        THEN F32Bits(sign, 255 * 8388608
                           + (IF hi = 0 /\ lo = 0 THEN 0 ELSE 4194304 + (hi % 4194304)))
    ELSE IF exp = 0 THEN F32Bits(sign, 0)
    ELSE IF exp >= 1151 THEN F32Bits(sign, 255 * 8388608)
    ELSE IF exp >= 897
        THEN F32Bits(sign, (exp - 896) * 8388608 + hi
                           + RoundUp(hi, lo, 268435456, FALSE))
    ELSE IF exp <= 872 THEN F32Bits(sign, 0)
    ELSE F32Bits(sign, ((8388608 + hi) \div Pow2(897 - exp))
                       + RoundUp((8388608 + hi) \div Pow2(897 - exp),
                                 (8388608 + hi) % Pow2(897 - exp),
                                 Pow2(896 - exp), lo > 0))

f64_as_f32(w) == narrowed(w[1] \div 128, F64Exp(w), F64Hi(w), F64Lo(w))

\* the position of the highest set bit of m, 0 < m < 2^23
TopBit(m) == CHOOSE p \in 0..22 : Pow2(p) <= m /\ m < 2 * Pow2(p)

\* `x as f64`: exact; an f32 subnormal becomes a normal f64; a NaN comes
\* out quiet, the top fraction bit set and the rest of the payload kept
\* (the conversion instruction of the build), an infinity stays as it is
widened_f32(sign, e, m) ==
    IF e = 255
        THEN F64Bits(sign, 2047, IF m = 0 THEN 0 ELSE 4194304 + (m % 4194304), 0)
    ELSE IF e > 0 THEN F64Bits(sign, e + 896, m, 0)
    ELSE IF m = 0 THEN F64Bits(sign, 0, 0, 0)
    ELSE F64Bits(sign, TopBit(m) + 874, (m - Pow2(TopBit(m))) * Pow2(23 - TopBit(m)), 0)

f32_as_f64(x) ==
    widened_f32(x[1] \div 128, (x[1] % 128) * 2 + (x[2] \div 128),
                (x[2] % 128) * 65536 + x[3] * 256 + x[4])

\* `a == b` on f64: NaN equals nothing, the two zeros are equal
F64Eq(a, b) ==
    /\ ~(F64Exp(a) = 2047 /\ (F64Hi(a) # 0 \/ F64Lo(a) # 0))
    /\ ~(F64Exp(b) = 2047 /\ (F64Hi(b) # 0 \/ F64Lo(b) # 0))
    /\ \/ a = b
       \/ Tail(a) = Fill(7, 0) /\ Tail(b) = Fill(7, 0) /\ a[1] % 128 = 0 /\ b[1] % 128 = 0


(***************************************************************************)
(* The tag table (Format).  A format is a record: its name and, for the    *)
(* Fix* families, the parameter embedded in the prefix byte.               *)
(***************************************************************************)
Fmt(name, arg) == [name |-> name, arg |-> arg]

\* the value of ExtensionType::GenericMap
GenericMap == 1

\* classification of a prefix byte
FormatOfByte(b) ==
    IF b <= 127 THEN Fmt("PositiveFixInt", b)
    ELSE IF b <= 143 THEN Fmt("FixMap", b % 16)
    ELSE IF b <= 159 THEN Fmt("FixArray", b % 16)
    ELSE IF b <= 191 THEN Fmt("FixStr", b % 32)
    ELSE IF b >= 224 THEN Fmt("NegativeFixInt", b)
    ELSE Fmt(CASE b = 192 -> "Nil"      [] b = 193 -> "Reserved"
               [] b = 194 -> "False"    [] b = 195 -> "True"
               [] b = 196 -> "Bin8"     [] b = 197 -> "Bin16"
               [] b = 198 -> "Bin32"    [] b = 199 -> "Ext8"
               [] b = 200 -> "Ext16"    [] b = 201 -> "Ext32"
               [] b = 202 -> "Float32"  [] b = 203 -> "Float64"
               [] b = 204 -> "Uint8"    [] b = 205 -> "Uint16"
               [] b = 206 -> "Uint32"   [] b = 207 -> "Uint64"
               [] b = 208 -> "Int8"     [] b = 209 -> "Int16"
               [] b = 210 -> "Int32"    [] b = 211 -> "Int64"
               [] b = 212 -> "FixExt1"  [] b = 213 -> "FixExt2"
               [] b = 214 -> "FixExt4"  [] b = 215 -> "FixExt8"
               [] b = 216 -> "FixExt16" [] b = 217 -> "Str8"
               [] b = 218 -> "Str16"    [] b = 219 -> "Str32"
               [] b = 220 -> "Array16"  [] b = 221 -> "Array32"
               [] b = 222 -> "Map16"    [] b = 223 -> "Map32", 0)

\* the prefix byte of a format; NegativeFixInt carries its i8 as the byte
\* of the same bit pattern
to_u8(f) ==
    CASE f.name = "PositiveFixInt" -> f.arg
      [] f.name = "FixMap"         -> 128 + f.arg
      [] f.name = "FixArray"       -> 144 + f.arg
      [] f.name = "FixStr"         -> 160 + f.arg
      [] f.name = "NegativeFixInt" -> f.arg
      [] OTHER -> CHOOSE b \in 192..223 : FormatOfByte(b).name = f.name

is_positive_fixed_int(prefix) == prefix < 128

is_negative_fixed_int(prefix) == prefix >= 224

\* Format::set_format: appends the prefix byte
set_format(f) == <<to_u8(f)>>

(***************************************************************************)
(* The serializer (src/src/ser).  Every operation returns the bytes it     *)
(* appends to the buffer of the Serializer it is applied to.  A failed     *)
(* assert! is the one-element sequence Abort, which is not a byte.         *)
(***************************************************************************)
Abort == <<-1>>

write_positive_fixed_int(v) ==
    IF v < 128 THEN set_format(Fmt("PositiveFixInt", v)) ELSE Abort

\* v is the i8 as its byte; (-32..=0).contains(&value)
write_negative_fixed_int(v) ==
    IF v >= 224 \/ v = 0 THEN set_format(Fmt("NegativeFixInt", v)) ELSE Abort

serialize_unit == set_format(Fmt("Nil", 0))

serialize_bool(v) == set_format(Fmt(IF v THEN "True" ELSE "False", 0))

\* serialize_u64 with the Uint8 range closed one short: 255 takes Uint16
serialize_u64_ShortUint8(v) ==
    IF U64Lt(v, Bit(7)) THEN write_positive_fixed_int(LowBytes(v, 1)[1])
    ELSE IF U64Lt(v, U_MAX(1)) THEN set_format(Fmt("Uint8", 0)) \o LowBytes(v, 1)
    ELSE IF U64Le(v, U_MAX(2)) THEN set_format(Fmt("Uint16", 0)) \o LowBytes(v, 2)
    ELSE IF U64Le(v, U_MAX(4)) THEN set_format(Fmt("Uint32", 0)) \o LowBytes(v, 4)
    ELSE set_format(Fmt("Uint64", 0)) \o v

serialize_u64(v) ==
    IF U64Lt(v, Bit(7)) THEN write_positive_fixed_int(LowBytes(v, 1)[1])
    ELSE IF U64Le(v, U_MAX(1)) THEN set_format(Fmt("Uint8", 0)) \o LowBytes(v, 1)
    ELSE IF U64Le(v, U_MAX(2)) THEN set_format(Fmt("Uint16", 0)) \o LowBytes(v, 2)
    ELSE IF U64Le(v, U_MAX(4)) THEN set_format(Fmt("Uint32", 0)) \o LowBytes(v, 4)
    ELSE set_format(Fmt("Uint64", 0)) \o v

\* serialize_i64 without the negative fixint arm: -32..-1 take Int8
serialize_i64_NoNegativeFixInt(v) ==
    IF I64Le(ZeroWord, v) THEN serialize_u64(v)
    ELSE IF I64Le(v, I_MAX(1)) /\ I64Le(I_MIN(1), v)
        THEN set_format(Fmt("Int8", 0)) \o LowBytes(v, 1)
    ELSE IF I64Le(v, I_MAX(2)) /\ I64Le(I_MIN(2), v)
        THEN set_format(Fmt("Int16", 0)) \o LowBytes(v, 2)
    ELSE IF I64Le(v, I_MAX(4)) /\ I64Le(I_MIN(4), v)
        THEN set_format(Fmt("Int32", 0)) \o LowBytes(v, 4)
    ELSE set_format(Fmt("Int64", 0)) \o v

\* serialize_i64 with the negative fixint arm open down to -64
serialize_i64_WideNegativeFixInt(v) ==
    IF I64Le(ZeroWord, v) THEN serialize_u64(v)
    ELSE IF I64Le(Not(Ones(6)), v) /\ I64Lt(v, ZeroWord)
        THEN write_negative_fixed_int(LowBytes(v, 1)[1])
    ELSE IF I64Le(v, I_MAX(1)) /\ I64Le(I_MIN(1), v)
        THEN set_format(Fmt("Int8", 0)) \o LowBytes(v, 1)
    ELSE IF I64Le(v, I_MAX(2)) /\ I64Le(I_MIN(2), v)
        THEN set_format(Fmt("Int16", 0)) \o LowBytes(v, 2)
    ELSE IF I64Le(v, I_MAX(4)) /\ I64Le(I_MIN(4), v)
        THEN set_format(Fmt("Int32", 0)) \o LowBytes(v, 4)
    ELSE set_format(Fmt("Int64", 0)) \o v

serialize_i64(v) ==
    IF I64Le(ZeroWord, v) THEN serialize_u64(v)
    ELSE IF I64Le(Not(Ones(5)), v) /\ I64Lt(v, ZeroWord)
        THEN write_negative_fixed_int(LowBytes(v, 1)[1])
    ELSE IF I64Le(v, I_MAX(1)) /\ I64Le(I_MIN(1), v)
        THEN set_format(Fmt("Int8", 0)) \o LowBytes(v, 1)
    ELSE IF I64Le(v, I_MAX(2)) /\ I64Le(I_MIN(2), v)
        THEN set_format(Fmt("Int16", 0)) \o LowBytes(v, 2)
    ELSE IF I64Le(v, I_MAX(4)) /\ I64Le(I_MIN(4), v)
        THEN set_format(Fmt("Int32", 0)) \o LowBytes(v, 4)
    ELSE set_format(Fmt("Int64", 0)) \o v

\* WriteEncoder::write_u64 and write_i64: the same arms over the same two
\* asserting writers
write_u64(val) ==
    IF U64Lt(val, Bit(7)) THEN write_positive_fixed_int(LowBytes(val, 1)[1])
    ELSE IF U64Le(val, U_MAX(1)) THEN set_format(Fmt("Uint8", 0)) \o LowBytes(val, 1)
    ELSE IF U64Le(val, U_MAX(2)) THEN set_format(Fmt("Uint16", 0)) \o LowBytes(val, 2)
    ELSE IF U64Le(val, U_MAX(4)) THEN set_format(Fmt("Uint32", 0)) \o LowBytes(val, 4)
    ELSE set_format(Fmt("Uint64", 0)) \o val

write_i64(val) ==
    IF I64Le(ZeroWord, val) THEN write_u64(val)
    ELSE IF I64Lt(val, ZeroWord) /\ I64Le(Not(Ones(5)), val)
        THEN write_negative_fixed_int(LowBytes(val, 1)[1])
    ELSE IF I64Le(val, I_MAX(1)) /\ I64Le(I_MIN(1), val)
        THEN set_format(Fmt("Int8", 0)) \o LowBytes(val, 1)
    ELSE IF I64Le(val, I_MAX(2)) /\ I64Le(I_MIN(2), val)
        THEN set_format(Fmt("Int16", 0)) \o LowBytes(val, 2)
    ELSE IF I64Le(val, I_MAX(4)) /\ I64Le(I_MIN(4), val)
        THEN set_format(Fmt("Int32", 0)) \o LowBytes(val, 4)
    ELSE set_format(Fmt("Int64", 0)) \o val

\* v: the UTF-8 bytes of the string
serialize_str(v) ==
    LET length == Len(v)
    IN  (IF length < 32 THEN set_format(Fmt("FixStr", length))
         ELSE IF length <= 255 THEN set_format(Fmt("Str8", 0)) \o LenBytes(length, 1)
         ELSE IF length <= 65535 THEN set_format(Fmt("Str16", 0)) \o LenBytes(length, 2)
         ELSE set_format(Fmt("Str32", 0)) \o LenBytes(length, 4))
        \o v

\* v: the UTF-8 bytes of the char; v.to_string() keeps them
serialize_char(v) == serialize_str(v)

serialize_bytes(v) ==
    IF Len(v) = 0 THEN serialize_unit
    ELSE LET length == Len(v)
         IN  (IF length <= 255 THEN set_format(Fmt("Bin8", 0)) \o LenBytes(length, 1)
              ELSE IF length <= 65535
                  THEN set_format(Fmt("Bin16", 0)) \o LenBytes(length, 2)
              ELSE set_format(Fmt("Bin32", 0)) \o LenBytes(length, 4))
             \o v

serialize_none == serialize_unit

\* fn is_exact_f32(num: f64): (num as f32) as f64 == num
is_exact_f32(num) == F64Eq(f32_as_f64(f64_as_f32(num)), num)

\* serialize_f64 with the test replaced by one on the low 29 fraction bits
serialize_f64_LowBitsOnly(v) ==
    IF F64Lo(v) = 0 THEN set_format(Fmt("Float32", 0)) \o f64_as_f32(v)
    ELSE set_format(Fmt("Float64", 0)) \o v

serialize_f64(v) ==
    IF is_exact_f32(v) THEN set_format(Fmt("Float32", 0)) \o f64_as_f32(v)
    ELSE set_format(Fmt("Float64", 0)) \o v

\* serialize_unit_variant: self.serialize_u32(_variant_index), which is
\* serialize_u64(u64::from(v)); variant_index is the u32 as 4 bytes
serialize_unit_variant_Uint32(variant_index) ==
    set_format(Fmt("Uint32", 0)) \o variant_index

serialize_unit_variant(variant_index) == serialize_u64(ZeroExt(variant_index))

\* write_array_length with `length <= 16` for `length < 16`
write_array_length_Fix16(length) ==
    IF length <= 16 THEN <<144 + length>>
    ELSE IF length <= 65535 THEN set_format(Fmt("Array16", 0)) \o LenBytes(length, 2)
    ELSE set_format(Fmt("Array32", 0)) \o LenBytes(length, 4)

write_array_length(length) ==
    IF length < 16 THEN set_format(Fmt("FixArray", length))
    ELSE IF length <= 65535 THEN set_format(Fmt("Array16", 0)) \o LenBytes(length, 2)
    ELSE set_format(Fmt("Array32", 0)) \o LenBytes(length, 4)

write_map_length(length) ==
    IF length < 16 THEN set_format(Fmt("FixMap", length))
    ELSE IF length <= 65535 THEN set_format(Fmt("Map16", 0)) \o LenBytes(length, 2)
    ELSE set_format(Fmt("Map32", 0)) \o LenBytes(length, 4)

write_ext_map_type == <<GenericMap>>

\* write_ext_map_len without its Ext8 arm
write_ext_map_len_NoExt8(length) ==
    IF length <= 65535 THEN set_format(Fmt("Ext16", 0)) \o LenBytes(length, 2)
    ELSE set_format(Fmt("Ext32", 0)) \o LenBytes(length, 4)

write_ext_map_len(length) ==
    IF length <= 255 THEN set_format(Fmt("Ext8", 0)) \o LenBytes(length, 1)
    ELSE IF length <= 65535 THEN set_format(Fmt("Ext16", 0)) \o LenBytes(length, 2)
    ELSE set_format(Fmt("Ext32", 0)) \o LenBytes(length, 4)

\* the sub-encoder of an aggregate: the bytes of the parts, in push order
RECURSIVE Concat(_)
Concat(parts) ==
    IF Len(parts) = 0 THEN <<>> ELSE Head(parts) \o Concat(Tail(parts))

\* ArraySerializer: elements into array_serializer, then at end the length
\* prefix and the buffered body go to the parent
ArraySerializer_end(array_len, body) == write_array_length(array_len) \o body

\* StructSerializer::end that wraps the map in the generic-map envelope
StructSerializer_end_Enveloped(entries, body) ==
    LET map_buffer == write_map_length(entries) \o body
    IN  write_ext_map_len(Len(map_buffer)) \o write_ext_map_type \o map_buffer

\* StructSerializer: (key, value) pairs into struct_serializer, then at end the
\* bare map length and the buffered body go to the parent
StructSerializer_end(entries, body) == write_map_length(entries) \o body

\* MapSerializer::end that leaves out the extension type byte
MapSerializer_end_NoType(map_entries, body) ==
    LET map_buffer == write_map_length(map_entries) \o body
    IN  write_ext_map_len(Len(map_buffer)) \o map_buffer

\* MapSerializer: keys and values into map_serializer; at end the inner map
\* is rebuilt in aux_map_encoder and the parent gets the extension header,
\* the extension type and the inner map
MapSerializer_end(map_entries, body) ==
    LET map_buffer == write_map_length(map_entries) \o body
    IN  write_ext_map_len(Len(map_buffer)) \o write_ext_map_type \o map_buffer

(***************************************************************************)
(* Values and shapes.  A value is a tuple headed by its type:              *)
(*   <<"bool", b>>, <<"unit">>,                                            *)
(*   <<"u8", bytes>> .. <<"u64", bytes>>, <<"i8", bytes>> .. <<"i64", ..>> *)
(*       (the integer at its own width, big-endian),                       *)
(*   <<"f32", 4 bytes>>, <<"f64", 8 bytes>>  (the IEEE 754 bits),          *)
(*   <<"char", utf8>>, <<"string", utf8>>, <<"bytes", bytes>>,             *)
(*   <<"none", inner shape>>, <<"some", value>>,                           *)
(*   <<"seq", element shape, values>>,                                     *)
(*   <<"map", key shape, value shape, entries>>  (entries: <<key, value>>  *)
(*       pairs in key order, as a BTreeMap iterates),                      *)
(*   <<"struct", field names, values>>           (declaration order),      *)
(*   <<"enum", variant names, k>>    (the unit variant of declared index   *)
(*       k, counted from 0, of an enum with these variants).               *)
(* The shape of a value is what its Deserialize impl asks the decoder for. *)
(***************************************************************************)
RECURSIVE ShapeOf(_)
ShapeOf(v) ==
    CASE v[1] = "none"   -> <<"option", v[2]>>
      [] v[1] = "some"   -> <<"option", ShapeOf(v[2])>>
      [] v[1] = "seq"    -> <<"seq", v[2]>>
      [] v[1] = "map"    -> <<"map", v[2], v[3]>>
      [] v[1] = "struct" -> <<"struct", v[2], [i \in 1..Len(v[3]) |-> ShapeOf(v[3][i])]>>
      [] v[1] = "enum"   -> <<"enum", v[2]>>
      [] OTHER           -> <<v[1]>>

\* value.serialize(serializer): the calls the Serialize impl of each type
\* makes on the Serializer
RECURSIVE Serialize(_)
Serialize(v) ==
    CASE v[1] = "bool"   -> serialize_bool(v[2])
      [] v[1] = "unit"   -> serialize_unit
      \* serialize_u8/u16/u32: self.serialize_u64(u64::from(v))
      [] v[1] \in {"u8", "u16", "u32", "u64"} -> serialize_u64(ZeroExt(v[2]))
      \* serialize_i8/i16/i32: self.serialize_i64(i64::from(v))
      [] v[1] \in {"i8", "i16", "i32", "i64"} -> serialize_i64(SignExt(v[2]))
      \* serialize_f32: self.serialize_f64(v as f64)
      [] v[1] = "f32"    -> serialize_f64(f32_as_f64(v[2]))
      [] v[1] = "f64"    -> serialize_f64(v[2])
      [] v[1] = "char"   -> serialize_char(v[2])
      [] v[1] = "string" -> serialize_str(v[2])
      [] v[1] = "bytes"  -> serialize_bytes(v[2])
      [] v[1] = "none"   -> serialize_none
      [] v[1] = "enum"   -> serialize_unit_variant(LenBytes(v[3], 4))
      [] v[1] = "some"   -> Serialize(v[2])
      [] v[1] = "seq"    ->
            ArraySerializer_end(Len(v[3]),
                Concat([i \in 1..Len(v[3]) |-> Serialize(v[3][i])]))
      [] v[1] = "map"    ->
            MapSerializer_end(Len(v[4]),
                Concat([i \in 1..Len(v[4]) |->
                            Serialize(v[4][i][1]) \o Serialize(v[4][i][2])]))
      [] v[1] = "struct" ->
            StructSerializer_end(Len(v[3]),
                Concat([i \in 1..Len(v[3]) |->
                            serialize_str(v[2][i]) \o Serialize(v[3][i])]))

\* to_vec: a fresh Serializer, the value serialized into it, its buffer
to_vec(v) == Serialize(v)

(***************************************************************************)
(* The deserializer (src/src/de).  Every operation takes the buffer and    *)
(* the cursor position and returns a result record: ok, the value, the     *)
(* error kind, the bit width an overflow message names, and the cursor     *)
(* position it leaves.                                                     *)
(***************************************************************************)
OkR(v, p) == [ok |-> TRUE, val |-> v, err |-> "", bits |-> 0, pos |-> p]

ErrR(e, b, p) == [ok |-> FALSE, val |-> <<>>, err |-> e, bits |-> b, pos |-> p]

\* read_exact of n bytes through Read for Deserializer: a short read
\* leaves the cursor at the end of the buffer
read_exact(buf, pos, n) ==
    IF pos + n <= Len(buf) THEN OkR(SubSeq(buf, pos + 1, pos + n), pos + n)
    ELSE ErrR("UnexpectedEnd", 0, Len(buf))

\* a u8, u16 or u32 length as a number.  The integers here are 32 bits
\* wide and signed, so a u32 is held by its bits: n itself below 2^31, and
\* n - 2^32 from 2^31 up (2147483648 is -2147483648, 4294967295 is -1).
ToLen(bs) ==
    IF Len(bs) = 4 /\ bs[1] >= 128
    THEN ToNat(<<bs[1] - 128, bs[2], bs[3], bs[4]>>) - 2147483647 - 1
    ELSE ToNat(bs)

\* n - k on a u32 held by its bits, 0 <= k < 2^31, wrapping below zero
U32Minus(n, k) ==
    IF n < 0 /\ n + 2147483647 + 1 < k
    THEN 2147483647 - (k - (n + 2147483647 + 1) - 1)
    ELSE n - k

\* a big-endian length field of `width` bytes
length_read(r) == IF r.ok THEN OkR(ToLen(r.val), r.pos) ELSE r

read_len(buf, pos, width) == length_read(read_exact(buf, pos, width))

\* Format::get_format(reader): one byte, then the format it tags
format_read(r) == IF r.ok THEN OkR(FormatOfByte(r.val[1]), r.pos) ELSE r

get_format(buf, pos) == format_read(read_exact(buf, pos, 1))

\* peek_format without `self.buffer.set_position(position)`
peek_format_Unrestored(buf, pos) == format_read(read_exact(buf, pos, 1))

\* set_position(position): the cursor goes back to where it was
position_restored(format, pos) ==
    IF format.ok THEN OkR(format.val, pos) ELSE format

peek_format(buf, pos) == position_restored(get_format(buf, pos), pos)

\* u8 -> ExtensionType
ExtensionType_try_from(b, pos) ==
    IF b = GenericMap THEN OkR("GenericMap", pos) ELSE ErrR("Message", 0, pos)

\* the extension length the format announces: fixed, or a length field
ext_byte_length(format, buf) ==
    IF ~format.ok THEN format
    ELSE CASE format.val.name = "FixExt1"  -> OkR(<<0, 0, 0, 1>>, format.pos)
           [] format.val.name = "FixExt2"  -> OkR(<<0, 0, 0, 2>>, format.pos)
           [] format.val.name = "FixExt4"  -> OkR(<<0, 0, 0, 4>>, format.pos)
           [] format.val.name = "FixExt8"  -> OkR(<<0, 0, 0, 8>>, format.pos)
           [] format.val.name = "FixExt16" -> OkR(<<0, 0, 0, 16>>, format.pos)
           [] format.val.name = "Ext8"     -> read_exact(buf, format.pos, 1)
           [] format.val.name = "Ext16"    -> read_exact(buf, format.pos, 2)
           [] format.val.name = "Ext32"    -> read_exact(buf, format.pos, 4)
           [] OTHER -> ErrR("ExpectedExt", 0, format.pos)

\* Ok((byte_length, ext_type.try_into()?))
ext_length_and_type(byte_length, ext_type) ==
    IF ext_type.ok
    THEN OkR(<<Fill(4 - Len(byte_length.val), 0) \o byte_length.val, ext_type.val>>,
             ext_type.pos)
    ELSE ext_type

\* the extension type byte t, read after the length
ext_type_read(byte_length, t) ==
    IF ~t.ok THEN t
    ELSE ext_length_and_type(byte_length, ExtensionType_try_from(t.val[1], t.pos))

ext_type_after(byte_length, buf) ==
    IF ~byte_length.ok THEN byte_length
    ELSE ext_type_read(byte_length, read_exact(buf, byte_length.pos, 1))

\* the value is <<byte_length as 4 bytes, extension type>>
read_ext_length_and_type(buf, pos) ==
    ext_type_after(ext_byte_length(get_format(buf, pos), buf), buf)

\* read_array_length, read_string_length, read_map_length and
\* read_bytes_length share a shape: a peeked Nil is length 0 and is left in
\* the buffer; otherwise the tag is taken and decides the length
length_unless_nil(next_format, pos, length) ==
    IF ~next_format.ok THEN next_format
    ELSE IF next_format.val.name = "Nil" THEN OkR(0, pos)
    ELSE length

array_length_of(format, buf) ==
    IF ~format.ok THEN format
    ELSE CASE format.val.name = "FixArray" -> OkR(format.val.arg, format.pos)
           [] format.val.name = "Array16"  -> read_len(buf, format.pos, 2)
           [] format.val.name = "Array32"  -> read_len(buf, format.pos, 4)
           [] format.val.name = "Nil"      -> OkR(0, format.pos)
           [] OTHER -> ErrR("ExpectedArray", 0, format.pos)

read_array_length(buf, pos) ==
    length_unless_nil(peek_format(buf, pos), pos,
                      array_length_of(get_format(buf, pos), buf))

\* take(n).read_to_end: the bytes that are there, at most n of them
get_bytes(buf, pos, n) ==
    IF n < 0 THEN OkR(SubSeq(buf, pos + 1, Len(buf)), Len(buf))
    ELSE OkR(SubSeq(buf, pos + 1, pos + Min(n, Len(buf) - pos)),
             pos + Min(n, Len(buf) - pos))

string_length_of(format, buf) ==
    IF ~format.ok THEN format
    ELSE CASE format.val.name = "FixStr"   -> OkR(format.val.arg, format.pos)
           [] format.val.name = "FixArray" -> OkR(format.val.arg, format.pos)
           [] format.val.name = "Str8"     -> read_len(buf, format.pos, 1)
           [] format.val.name = "Str16"    -> read_len(buf, format.pos, 2)
           [] format.val.name = "Str32"    -> read_len(buf, format.pos, 4)
           [] format.val.name = "Nil"      -> OkR(0, format.pos)
           [] OTHER -> ErrR("ExpectedString", 0, format.pos)

read_string_length(buf, pos) ==
    length_unless_nil(peek_format(buf, pos), pos,
                      string_length_of(get_format(buf, pos), buf))

\* String::from_utf8: well-formed UTF-8 (no overlong forms, no surrogates,
\* nothing above U+10FFFF).  Every byte is ASCII, a lead byte followed by
\* its continuation bytes, or a continuation byte that a lead byte within
\* the three bytes before it accounts for.
IsCont(bs, i) == i >= 1 /\ i <= Len(bs) /\ bs[i] \in 128..191

\* the number of continuation bytes a lead byte asks for, 0 for other bytes
Utf8Need(b) ==
    IF b \in 194..223 THEN 1
    ELSE IF b \in 224..239 THEN 2
    ELSE IF b \in 240..244 THEN 3
    ELSE 0

Utf8Valid(bs) ==
    \A i \in 1..Len(bs) :
        \/ bs[i] <= 127
        \/ /\ Utf8Need(bs[i]) > 0
           /\ \A j \in 1..Utf8Need(bs[i]) : IsCont(bs, i + j)
           /\ bs[i] = 224 => bs[i + 1] >= 160
           /\ bs[i] = 237 => bs[i + 1] <= 159
           /\ bs[i] = 240 => bs[i + 1] >= 144
           /\ bs[i] = 244 => bs[i + 1] <= 143
        \/ /\ bs[i] \in 128..191
           /\ \E d \in 1..3 :
                /\ i - d >= 1
                /\ Utf8Need(bs[i - d]) >= d
                /\ \A j \in 1..(d - 1) : IsCont(bs, i - j)

\* String::from_utf8(bytes) on the bytes read
string_from_utf8(bytes) ==
    IF Utf8Valid(bytes.val) THEN bytes ELSE ErrR("Message", 0, bytes.pos)

string_of_length(str_len, buf) ==
    IF ~str_len.ok THEN str_len
    ELSE string_from_utf8(get_bytes(buf, str_len.pos, str_len.val))

parse_string(buf, pos) == string_of_length(read_string_length(buf, pos), buf)

\* read_map_length that takes any other tag for an empty map
map_length_of_Lenient(format, buf) ==
    IF ~format.ok THEN format
    ELSE CASE format.val.name = "FixMap" -> OkR(format.val.arg, format.pos)
           [] format.val.name = "Map16"  -> read_len(buf, format.pos, 2)
           [] format.val.name = "Map32"  -> read_len(buf, format.pos, 4)
           [] OTHER -> OkR(0, format.pos)

map_length_of(format, buf) ==
    IF ~format.ok THEN format
    ELSE CASE format.val.name = "FixMap" -> OkR(format.val.arg, format.pos)
           [] format.val.name = "Map16"  -> read_len(buf, format.pos, 2)
           [] format.val.name = "Map32"  -> read_len(buf, format.pos, 4)
           [] format.val.name = "Nil"    -> OkR(0, format.pos)
           [] OTHER -> ErrR("ExpectedMap", 0, format.pos)

read_map_length(buf, pos) ==
    length_unless_nil(peek_format(buf, pos), pos,
                      map_length_of(get_format(buf, pos), buf))

bytes_length_of(format, buf) ==
    IF ~format.ok THEN format
    ELSE CASE format.val.name = "FixArray" -> OkR(format.val.arg, format.pos)
           [] format.val.name = "Bin8"     -> read_len(buf, format.pos, 1)
           [] format.val.name = "Bin16"    -> read_len(buf, format.pos, 2)
           [] format.val.name = "Bin32"    -> read_len(buf, format.pos, 4)
           [] format.val.name = "Nil"      -> OkR(0, format.pos)
           [] OTHER -> ErrR("ExpectedBytes", 0, format.pos)

read_bytes_length(buf, pos) ==
    length_unless_nil(peek_format(buf, pos), pos,
                      bytes_length_of(get_format(buf, pos), buf))

\* parse_unsigned with `if int8 >= 0` and its like dropped: a bare
\* `int8 as u64`
non_negative_Unchecked(r) == IF ~r.ok THEN r ELSE OkR(SignExt(r.val), r.pos)

\* an Int8/16/32/64 payload for an unsigned request: `if intN >= 0`
non_negative(r) ==
    IF ~r.ok THEN r
    ELSE IF r.val[1] < 128 THEN OkR(SignExt(r.val), r.pos)
    ELSE ErrR("ExpectedUInteger", 0, r.pos)

read_signed_as_unsigned(buf, pos, width) == non_negative(read_exact(buf, pos, width))

\* a payload widened to a word: `as u64`, `as i64`
widened(r, signed) ==
    IF ~r.ok THEN r
    ELSE OkR(IF signed THEN SignExt(r.val) ELSE ZeroExt(r.val), r.pos)

read_widened(buf, pos, width, signed) == widened(read_exact(buf, pos, width), signed)

\* parse_unsigned with the format read: the fixint tests on the prefix, then
\* the match on the format
unsigned_of(f, buf) ==
    IF ~f.ok THEN f
    ELSE IF is_positive_fixed_int(to_u8(f.val)) THEN OkR(ZeroExt(<<to_u8(f.val)>>), f.pos)
    ELSE IF is_negative_fixed_int(to_u8(f.val)) THEN ErrR("ExpectedUInteger", 0, f.pos)
    ELSE CASE f.val.name = "Uint8"  -> read_widened(buf, f.pos, 1, FALSE)
           [] f.val.name = "Uint16" -> read_widened(buf, f.pos, 2, FALSE)
           [] f.val.name = "Uint32" -> read_widened(buf, f.pos, 4, FALSE)
           [] f.val.name = "Uint64" -> read_widened(buf, f.pos, 8, FALSE)
           [] f.val.name = "Int8"   -> read_signed_as_unsigned(buf, f.pos, 1)
           [] f.val.name = "Int16"  -> read_signed_as_unsigned(buf, f.pos, 2)
           [] f.val.name = "Int32"  -> read_signed_as_unsigned(buf, f.pos, 4)
           [] f.val.name = "Int64"  -> read_signed_as_unsigned(buf, f.pos, 8)
           [] OTHER -> ErrR("ExpectedUInteger", 0, f.pos)

\* the value is a u64 word
parse_unsigned(buf, pos) == unsigned_of(get_format(buf, pos), buf)

\* `if v <= i64::MAX as u64`
u64_as_signed(v) ==
    IF ~v.ok THEN v
    ELSE IF U64Le(v.val, I_MAX(8)) THEN v
    ELSE ErrR("Message", 64, v.pos)

\* the Uint64 arm with a bare `v as i64`
read_u64_as_signed_Wrapping(buf, pos) == read_exact(buf, pos, 8)

\* a Uint64 payload read for a signed request
read_u64_as_signed(buf, pos) == u64_as_signed(read_exact(buf, pos, 8))

\* parse_signed with the format read: the fixint tests on the prefix, then
\* the match on the format
signed_of(f, buf) ==
    IF ~f.ok THEN f
    ELSE IF is_positive_fixed_int(to_u8(f.val)) THEN OkR(ZeroExt(<<to_u8(f.val)>>), f.pos)
    ELSE IF is_negative_fixed_int(to_u8(f.val)) THEN OkR(SignExt(<<to_u8(f.val)>>), f.pos)
    ELSE CASE f.val.name = "Int8"   -> read_widened(buf, f.pos, 1, TRUE)
           [] f.val.name = "Int16"  -> read_widened(buf, f.pos, 2, TRUE)
           [] f.val.name = "Int32"  -> read_widened(buf, f.pos, 4, TRUE)
           [] f.val.name = "Int64"  -> read_widened(buf, f.pos, 8, TRUE)
           [] f.val.name = "Uint8"  -> read_widened(buf, f.pos, 1, FALSE)
           [] f.val.name = "Uint16" -> read_widened(buf, f.pos, 2, FALSE)
           [] f.val.name = "Uint32" -> read_widened(buf, f.pos, 4, FALSE)
           [] f.val.name = "Uint64" -> read_u64_as_signed(buf, f.pos)
           [] OTHER -> ErrR("ExpectedInteger", 0, f.pos)

\* the value is an i64 word
parse_signed(buf, pos) == signed_of(get_format(buf, pos), buf)

\* visitor.visit_bool
bool_of(f) ==
    IF ~f.ok THEN f
    ELSE CASE f.val.name = "True"  -> OkR(<<"bool", TRUE>>, f.pos)
           [] f.val.name = "False" -> OkR(<<"bool", FALSE>>, f.pos)
           [] OTHER -> ErrR("ExpectedBoolean", 0, f.pos)

deserialize_bool(buf, pos) == bool_of(get_format(buf, pos))

\* the range check against the target type, then the narrowing cast
signed_in_range(v, ty, width, max, min) ==
    IF ~v.ok THEN v
    ELSE IF I64Le(v.val, max) /\ I64Le(min, v.val)
        THEN OkR(<<ty, LowBytes(v.val, width)>>, v.pos)
    ELSE ErrR("Message", 8 * width, v.pos)

\* deserialize_i8, deserialize_i16, deserialize_i32 for width 1, 2, 4
deserialize_signed(buf, pos, ty, width, max, min) ==
    signed_in_range(parse_signed(buf, pos), ty, width, max, min)

\* visitor.visit_i64, visit_u64, visit_string: the value as it was parsed
visited(v, ty) == IF v.ok THEN OkR(<<ty, v.val>>, v.pos) ELSE v

deserialize_i64(buf, pos) == visited(parse_signed(buf, pos), "i64")

\* the range check against the target type, then the narrowing cast
unsigned_in_range(v, ty, width, max) ==
    IF ~v.ok THEN v
    ELSE IF U64Le(v.val, max) /\ U64Le(ZeroWord, v.val)
        THEN OkR(<<ty, LowBytes(v.val, width)>>, v.pos)
    ELSE ErrR("Message", 8 * width, v.pos)

\* deserialize_u8/u16/u32 with the range check opened to u64::MAX: a bare
\* `v as uN`
deserialize_unsigned_Truncating(buf, pos, ty, width, max) ==
    unsigned_in_range(parse_unsigned(buf, pos), ty, width, U_MAX(8))

\* deserialize_u8, deserialize_u16, deserialize_u32 for width 1, 2, 4
deserialize_unsigned(buf, pos, ty, width, max) ==
    unsigned_in_range(parse_unsigned(buf, pos), ty, width, max)

deserialize_u64(buf, pos) == visited(parse_unsigned(buf, pos), "u64")

\* deserialize_f32, given the format f it reads first: Float32 only
deserialize_f32(f, buf) ==
    IF ~f.ok THEN f
    ELSE IF f.val.name = "Float32" THEN visited(read_exact(buf, f.pos, 4), "f32")
    ELSE ErrR("ExpectedFloat", 0, f.pos)

\* deserialize_f64, given the format f it reads first: Float64, or Float32
\* with `read_f32(self)? as f64`
deserialize_f64(f, buf) ==
    IF ~f.ok THEN f
    ELSE IF f.val.name = "Float64" THEN visited(read_exact(buf, f.pos, 8), "f64")
    ELSE IF f.val.name = "Float32"
        THEN IF read_exact(buf, f.pos, 4).ok
             THEN OkR(<<"f64", f32_as_f64(read_exact(buf, f.pos, 4).val)>>, f.pos + 4)
             ELSE read_exact(buf, f.pos, 4)
    ELSE ErrR("ExpectedFloat", 0, f.pos)

\* `if str.len() == 1`: the length in bytes
char_of(str) ==
    IF ~str.ok THEN str
    ELSE IF Len(str.val) = 1 THEN OkR(<<"char", str.val>>, str.pos)
    ELSE ErrR("ExpectedChar", 0, str.pos)

deserialize_char(buf, pos) == char_of(parse_string(buf, pos))

deserialize_string(buf, pos) == visited(parse_string(buf, pos), "string")

byte_buf_of_length(bytes_len, buf) ==
    IF ~bytes_len.ok THEN bytes_len
    ELSE visited(get_bytes(buf, bytes_len.pos, bytes_len.val), "bytes")

deserialize_byte_buf(buf, pos) ==
    byte_buf_of_length(read_bytes_length(buf, pos), buf)

\* visitor.visit_unit on Nil
unit_of(f) ==
    IF ~f.ok THEN f
    ELSE IF f.val.name = "Nil" THEN OkR(<<"unit">>, f.pos)
    ELSE ErrR("ExpectedNull", 0, f.pos)

deserialize_unit(buf, pos) == unit_of(get_format(buf, pos))

\* the order of BTreeMap keys: integers by value, strings by their bytes
LexLt(a, b) ==
    \/ Len(a) < Len(b) /\ SubSeq(b, 1, Len(a)) = a
    \/ \E i \in 1..Min(Len(a), Len(b)) :
           a[i] < b[i] /\ \A j \in 1..(i - 1) : a[j] = b[j]

KeyLt(a, b) ==
    IF a[1] \in {"i8", "i16", "i32", "i64"} THEN I64Lt(SignExt(a[2]), SignExt(b[2]))
    ELSE IF a[1] \in {"u8", "u16", "u32", "u64"} THEN U64Lt(ZeroExt(a[2]), ZeroExt(b[2]))
    ELSE LexLt(a[2], b[2])

\* BTreeMap::insert on the entries in key order: a present key is overwritten
RECURSIVE BTreeMap_insert(_, _, _)
BTreeMap_insert(entries, k, v) ==
    IF Len(entries) = 0 THEN <<<<k, v>>>>
    ELSE IF Head(entries)[1] = k THEN <<<<k, v>>>> \o Tail(entries)
    ELSE IF KeyLt(k, Head(entries)[1]) THEN <<<<k, v>>>> \o entries
    ELSE <<Head(entries)>> \o BTreeMap_insert(Tail(entries), k, v)

\* the index of a field name in the declared field list, 0 when absent
FieldIndex(names, name) ==
    IF \E i \in 1..Len(names) : names[i] = name
    THEN CHOOSE i \in 1..Len(names) : names[i] = name
    ELSE 0

\* visitor.visit_enum(variant.into_deserializer()): the derived visitor
\* finds the variant the string names and takes it as a unit variant; a
\* string that names no variant is serde's unknown-variant error
visit_enum(variant, variants) ==
    IF ~variant.ok THEN variant
    ELSE IF FieldIndex(variants, variant.val) # 0
        THEN OkR(<<"enum", variants, FieldIndex(variants, variant.val) - 1>>, variant.pos)
    ELSE ErrR("Message", 0, variant.pos)

\* variants.get(index as usize) with the index taken modulo 256
enum_of_index_Wrapping(index, variants) ==
    IF ~index.ok THEN index
    ELSE IF index.val[8] < Len(variants)
        THEN visit_enum(OkR(variants[index.val[8] + 1], index.pos), variants)
    ELSE ErrR("ExpectedUInteger", 0, index.pos)

\* variants.get(index as usize)
enum_of_index(index, variants) ==
    IF ~index.ok THEN index
    ELSE IF U64Lt(index.val, FromNat(Len(variants)))
        THEN visit_enum(OkR(variants[ToNat(LowBytes(index.val, 3)) + 1], index.pos),
                        variants)
    ELSE ErrR("ExpectedUInteger", 0, index.pos)

\* deserialize_enum, given the format it peeks at pos; in the Str arm the
\* string read is the variant's name
deserialize_enum(format, buf, pos, variants) ==
    IF ~format.ok THEN format
    ELSE IF format.val.name \in {"Uint8", "Uint16", "Uint32", "Uint64", "Int8", "Int16",
                                 "Int32", "Int64", "NegativeFixInt", "PositiveFixInt"}
        THEN enum_of_index(parse_unsigned(buf, pos), variants)
    ELSE IF format.val.name \in {"Str8", "Str16", "Str32", "FixStr"}
        THEN visit_enum(parse_string(buf, pos), variants)
    ELSE ErrR("Message", 0, pos)

RECURSIVE Deserialize(_, _, _)
RECURSIVE visit_seq(_, _, _, _, _)
RECURSIVE visit_map(_, _, _, _, _, _)
RECURSIVE visit_struct(_, _, _, _, _, _)

\* the rest of next_element_seed once the element r is decoded (`?`), and
\* the visitor's push and next call
next_element_seed(r, buf, elem, elements_in_arr, acc) ==
    IF ~r.ok THEN r
    ELSE visit_seq(buf, r.pos, elem, U32Minus(elements_in_arr, 1), Append(acc, r.val))

\* ArrayReadAccess driven by the Vec visitor: next_element until it returns
\* None; each call with elements_in_arr > 0 lowers it and decodes an element
visit_seq(buf, pos, elem, elements_in_arr, acc) ==
    IF elements_in_arr = 0 THEN OkR(acc, pos)
    ELSE next_element_seed(Deserialize(buf, pos, elem), buf, elem,
                           elements_in_arr, acc)

\* next_value_seed lowers entries_in_map and decodes the value v; the
\* visitor inserts the entry and asks for the next key
next_value_seed(k, v, buf, ksh, vsh, entries_in_map, acc) ==
    IF ~v.ok THEN v
    ELSE visit_map(buf, v.pos, ksh, vsh, U32Minus(entries_in_map, 1),
                   BTreeMap_insert(acc, k.val, v.val))

\* next_key_seed once the key k is decoded (`?`); the visitor then asks for
\* the value
next_key_seed(k, buf, ksh, vsh, entries_in_map, acc) ==
    IF ~k.ok THEN k
    ELSE next_value_seed(k, Deserialize(buf, k.pos, vsh), buf, ksh, vsh,
                         entries_in_map, acc)

\* MapReadAccess driven by the BTreeMap visitor: next_key, next_value and
\* insert until next_key returns None
visit_map(buf, pos, ksh, vsh, entries_in_map, acc) ==
    IF entries_in_map = 0 THEN OkR(acc, pos)
    ELSE next_key_seed(Deserialize(buf, pos, ksh), buf, ksh, vsh,
                       entries_in_map, acc)

\* the derived visitor at the end of the map: every field must have a
\* value; a missing optional field is None
struct_build(pos, names, shapes, got) ==
    IF \A i \in 1..Len(names) : got[i] # <<>> \/ shapes[i][1] = "option"
    THEN OkR(<<"struct", names,
               [i \in 1..Len(names) |->
                   IF got[i] # <<>> THEN got[i][1]
                   ELSE <<"none", shapes[i][2]>>]>>, pos)
    ELSE ErrR("Message", 0, pos)

\* the derived visitor stores the value v of field i and asks for the next key
struct_value(v, i, buf, names, shapes, entries_in_map, got) ==
    IF ~v.ok THEN v
    ELSE visit_struct(buf, v.pos, names, shapes, U32Minus(entries_in_map, 1),
                      [got EXCEPT ![i] = <<v.val>>])

\* the derived visitor with the key k (deserialize_identifier ->
\* deserialize_str): a declared field i takes its value once; an undeclared
\* one (i = 0) is skipped through deserialize_ignored_any, which is todo!()
struct_key(k, i, buf, names, shapes, entries_in_map, got) ==
    IF ~k.ok THEN k
    ELSE IF i = 0 THEN ErrR("Panic", 0, k.pos)
    ELSE IF got[i] # <<>> THEN ErrR("Message", 0, k.pos)
    ELSE struct_value(Deserialize(buf, k.pos, shapes[i]), i, buf, names, shapes,
                      entries_in_map, got)

\* the index of the field the key k names
struct_field(k, buf, names, shapes, entries_in_map, got) ==
    struct_key(k, IF k.ok THEN FieldIndex(names, k.val) ELSE 0, buf, names,
               shapes, entries_in_map, got)

\* StructAccess driven by a derived struct visitor; got[i] is <<>> or <<value>>
visit_struct(buf, pos, names, shapes, entries_in_map, got) ==
    IF entries_in_map = 0 THEN struct_build(pos, names, shapes, got)
    ELSE struct_field(parse_string(buf, pos), buf, names, shapes,
                      entries_in_map, got)

\* visitor.visit_some(self)
visit_some(v) == IF v.ok THEN OkR(<<"some", v.val>>, v.pos) ELSE v

\* deserialize_option with the peeked format p
option_peeked(p, buf, pos, inner) ==
    IF ~p.ok THEN p
    ELSE IF p.val.name = "Nil" THEN OkR(<<"none", inner>>, pos + 1)
    ELSE visit_some(Deserialize(buf, pos, inner))

deserialize_option(buf, pos, inner) ==
    option_peeked(peek_format(buf, pos), buf, pos, inner)

\* visitor.visit_seq(ArrayReadAccess::new(self, arr_len)) into a Vec
seq_collected(r, elem) == IF r.ok THEN OkR(<<"seq", elem, r.val>>, r.pos) ELSE r

\* deserialize_seq with the array length read (`?`)
seq_of_length(arr_len, buf, elem) ==
    IF ~arr_len.ok THEN arr_len
    ELSE seq_collected(visit_seq(buf, arr_len.pos, elem, arr_len.val, <<>>), elem)

deserialize_seq(buf, pos, elem) ==
    seq_of_length(read_array_length(buf, pos), buf, elem)

\* visitor.visit_map(MapReadAccess::new(self, map_len)) into a BTreeMap
map_collected(r, ksh, vsh) ==
    IF r.ok THEN OkR(<<"map", ksh, vsh, r.val>>, r.pos) ELSE r

\* deserialize_map with the map length read (`?`)
map_of_length(map_len, buf, ksh, vsh) ==
    IF ~map_len.ok THEN map_len
    ELSE map_collected(visit_map(buf, map_len.pos, ksh, vsh, map_len.val, <<>>),
                       ksh, vsh)

\* deserialize_map with the extension header read (`?`): the test of the
\* extension type returns ExpectedExt when it IS GenericMap
map_of_ext(ext, buf, ksh, vsh) ==
    IF ~ext.ok THEN ext
    ELSE IF ext.val[2] = "GenericMap" THEN ErrR("ExpectedExt", 0, ext.pos)
    ELSE map_of_length(read_map_length(buf, ext.pos), buf, ksh, vsh)

deserialize_map(buf, pos, ksh, vsh) ==
    map_of_ext(read_ext_length_and_type(buf, pos), buf, ksh, vsh)

\* deserialize_struct with the map length read (`?`)
struct_of_length(map_len, buf, names, shapes) ==
    IF ~map_len.ok THEN map_len
    ELSE visit_struct(buf, map_len.pos, names, shapes, map_len.val,
                      [i \in 1..Len(names) |-> <<>>])

deserialize_struct(buf, pos, names, shapes) ==
    struct_of_length(read_map_length(buf, pos), buf, names, shapes)

\* T::deserialize(deserializer): the request the Deserialize impl of each
\* shape makes on the Deserializer
\* deserialize_any with the peeked format p: the request the tag stands
\* for, its elements asked for the same way; the map, extension and
\* reserved arms are todo!()
deserialize_any(p, buf, pos) ==
    IF ~p.ok THEN p
    ELSE CASE p.val.name \in {"PositiveFixInt", "NegativeFixInt", "Int8"}
                -> Deserialize(buf, pos, <<"i8">>)
           [] p.val.name \in {"FixArray", "Array16", "Array32"}
                -> Deserialize(buf, pos, <<"seq", <<"any">>>>)
           [] p.val.name \in {"FixStr", "Str8", "Str16", "Str32"}
                -> Deserialize(buf, pos, <<"string">>)
           [] p.val.name = "Nil" -> Deserialize(buf, pos, <<"unit">>)
           [] p.val.name \in {"False", "True"} -> Deserialize(buf, pos, <<"bool">>)
           [] p.val.name \in {"Bin8", "Bin16", "Bin32"}
                -> Deserialize(buf, pos, <<"bytes">>)
           [] p.val.name = "Float32" -> Deserialize(buf, pos, <<"f32">>)
           [] p.val.name = "Float64" -> Deserialize(buf, pos, <<"f64">>)
           [] p.val.name = "Uint8"   -> Deserialize(buf, pos, <<"u8">>)
           [] p.val.name = "Uint16"  -> Deserialize(buf, pos, <<"u16">>)
           [] p.val.name = "Uint32"  -> Deserialize(buf, pos, <<"u32">>)
           [] p.val.name = "Uint64"  -> Deserialize(buf, pos, <<"u64">>)
           [] p.val.name = "Int16"   -> Deserialize(buf, pos, <<"i16">>)
           [] p.val.name = "Int32"   -> Deserialize(buf, pos, <<"i32">>)
           [] p.val.name = "Int64"   -> Deserialize(buf, pos, <<"i64">>)
           [] OTHER -> ErrR("Panic", 0, pos)

Deserialize(buf, pos, sh) ==
    CASE sh[1] = "bool"   -> deserialize_bool(buf, pos)
      [] sh[1] = "unit"   -> deserialize_unit(buf, pos)
      [] sh[1] = "u8"     -> deserialize_unsigned(buf, pos, "u8", 1, U_MAX(1))
      [] sh[1] = "u16"    -> deserialize_unsigned(buf, pos, "u16", 2, U_MAX(2))
      [] sh[1] = "u32"    -> deserialize_unsigned(buf, pos, "u32", 4, U_MAX(4))
      [] sh[1] = "u64"    -> deserialize_u64(buf, pos)
      [] sh[1] = "i8"     -> deserialize_signed(buf, pos, "i8", 1, I_MAX(1), I_MIN(1))
      [] sh[1] = "i16"    -> deserialize_signed(buf, pos, "i16", 2, I_MAX(2), I_MIN(2))
      [] sh[1] = "i32"    -> deserialize_signed(buf, pos, "i32", 4, I_MAX(4), I_MIN(4))
      [] sh[1] = "i64"    -> deserialize_i64(buf, pos)
      [] sh[1] = "f32"    -> deserialize_f32(get_format(buf, pos), buf)
      [] sh[1] = "f64"    -> deserialize_f64(get_format(buf, pos), buf)
      [] sh[1] = "char"   -> deserialize_char(buf, pos)
      [] sh[1] = "string" -> deserialize_string(buf, pos)
      [] sh[1] = "bytes"  -> deserialize_byte_buf(buf, pos)
      [] sh[1] = "option" -> deserialize_option(buf, pos, sh[2])
      [] sh[1] = "seq"    -> deserialize_seq(buf, pos, sh[2])
      [] sh[1] = "map"    -> deserialize_map(buf, pos, sh[2], sh[3])
      [] sh[1] = "struct" -> deserialize_struct(buf, pos, sh[2], sh[3])
      [] sh[1] = "enum"   -> deserialize_enum(peek_format(buf, pos), buf, pos, sh[2])
      [] sh[1] = "any"    -> deserialize_any(peek_format(buf, pos), buf, pos)
      \* deserialize_tuple and deserialize_tuple_struct are todo!()
      [] sh[1] = "tuple"  -> ErrR("Panic", 0, pos)

\* from_slice: the root value, then the cursor must be at the end
at_end(t, buf) ==
    IF ~t.ok THEN t
    ELSE IF t.pos = Len(buf) THEN t
    ELSE ErrR("TrailingCharacters", 0, t.pos)

from_slice(buf, sh) == at_end(Deserialize(buf, 0, sh), buf)

(***************************************************************************)
(* The inputs of the model.                                                *)
(***************************************************************************)
\* integers around every power of two: 2^k, 2^k - 1 and, signed, -2^k and
\* -2^k - 1, at a width of n bytes
UnsignedSamples(n) ==
    {LowBytes(w, n) : w \in {Bit(k) : k \in 0..(8 * n - 1)} \cup {Ones(k) : k \in 0..(8 * n)}}

SignedSamples(n) ==
    {LowBytes(w, n) :
        w \in {Bit(k) : k \in 0..(8 * n - 2)} \cup {Ones(k) : k \in 0..(8 * n - 1)}
              \cup {Not(Ones(k)) : k \in 0..(8 * n - 1)}
              \cup {Not(Bit(k)) : k \in 0..(8 * n - 2)}}

IntTypes == {"u8", "u16", "u32", "u64", "i8", "i16", "i32", "i64"}

UnsignedTypes == {"u8", "u16", "u32", "u64"}

SignedTypes == {"i8", "i16", "i32", "i64"}

WidthOf(ty) ==
    CASE ty \in {"u8", "i8"} -> 1 [] ty \in {"u16", "i16"} -> 2
      [] ty \in {"u32", "i32"} -> 4 [] ty \in {"u64", "i64"} -> 8

IntValues ==
    UNION {{<<ty, bs>> :
                bs \in IF ty \in UnsignedTypes THEN UnsignedSamples(WidthOf(ty))
                       ELSE SignedSamples(WidthOf(ty))} : ty \in IntTypes}

\* the ASCII string of n bytes "abc..."
Text(n) == [i \in 1..n |-> 97 + (i % 26)]

PrimitiveValues ==
    {<<"bool", TRUE>>, <<"bool", FALSE>>, <<"unit">>} \cup IntValues
    \* 'a', U+00E9, U+20AC, U+1F600 as UTF-8
    \cup {<<"char", bs>> : bs \in {<<97>>, <<195, 169>>, <<226, 130, 172>>,
                                   <<240, 159, 152, 128>>}}
    \cup {<<"string", bs>> : bs \in {Text(n) : n \in {0, 1, 5, 31, 32, 255, 256}}
                                    \cup {<<195, 169>>, <<72, 226, 130, 172>>}}
    \cup {<<"bytes", bs>> :
            bs \in {<<>>, <<1>>, <<0, 255>>, <<192>>, Text(255), Text(256)}}
    \cup {<<"none", <<"u8">>>>, <<"some", <<"u8", <<5>>>>>>, <<"some", <<"u8", <<200>>>>>>,
          <<"none", <<"string">>>>, <<"some", <<"string", <<97>>>>>>,
          <<"none", <<"unit">>>>, <<"some", <<"unit">>>>,
          <<"some", <<"i64", I_MIN(8)>>>>, <<"some", <<"bool", TRUE>>>>}

PrimitiveTypes ==
    {"bool", "unit", "char", "string", "bytes", "none", "some"} \cup IntTypes

\* sequences of at most n elements of S
SeqsOver(S, n) == UNION {[1..k -> S] : k \in 0..n}

\* entries of a BTreeMap with keys in K and values in V: strictly ascending keys
SortedEntries(K, V, n) ==
    {e \in SeqsOver(K \X V, n) :
        \A i \in 1..(Len(e) - 1) : KeyLt(e[i][1], e[i + 1][1])}

I32V(w) == <<"i32", LowBytes(w, 4)>>

U8V(b) == <<"u8", <<b>>>>

SeqI32(s) == <<"seq", <<"i32">>, s>>

SeqValues ==
    {SeqI32(s) : s \in SeqsOver({I32V(FromNat(1)), I32V(Not(FromNat(32))),
                                 I32V(FromNat(545345))}, MaxElems)}
    \cup {<<"seq", <<"string">>, s>> :
            s \in SeqsOver({<<"string", <<>>>>, <<"string", <<104, 105>>>>}, MaxElems)}
    \cup {<<"seq", <<"bytes">>, s>> :
            s \in SeqsOver({<<"bytes", <<>>>>, <<"bytes", <<7>>>>}, MaxElems)}
    \cup {<<"seq", <<"seq", <<"i32">>>>, s>> :
            s \in SeqsOver({SeqI32(<<>>), SeqI32(<<I32V(FromNat(9))>>)}, MaxElems)}
    \cup {SeqI32([i \in 1..16 |-> I32V(FromNat(i))])}

\* {"Hello": 1, "Heyo": 50} and its sub-maps, as in the nested-map tests
StringU8Maps ==
    {<<"map", <<"string">>, <<"u8">>, e>> :
        e \in SortedEntries({<<"string", <<72, 101, 108, 108, 111>>>>,
                             <<"string", <<72, 101, 121, 111>>>>},
                            {U8V(1), U8V(50)}, MaxElems)}

MapValues ==
    {<<"map", <<"i32">>, <<"seq", <<"i32">>>>, e>> :
        e \in SortedEntries({I32V(FromNat(1)), I32V(FromNat(2)), I32V(Not(FromNat(32)))},
                            {SeqI32(<<I32V(FromNat(3)), I32V(FromNat(5))>>), SeqI32(<<>>)},
                            MaxElems)}
    \cup StringU8Maps
    \cup {<<"map", <<"string">>, <<"map", <<"string">>, <<"u8">>>>, e>> :
            e \in SortedEntries({<<"string", <<78, 101, 115, 116, 101, 100>>>>},
                                StringU8Maps, MaxElems)}
    \cup {<<"map", <<"i32">>, <<"i32">>,
            [i \in 1..16 |-> <<I32V(FromNat(i)), I32V(FromNat(i + 1))>>]>>,
          <<"map", <<"u8">>, <<"string">>, <<<<U8V(1), <<"string", Text(300)>>>>>>>>}

\* struct Bar { bar: u16 }
Bar(b) == <<"struct", <<<<98, 97, 114>>>>, <<<<"u16", <<0, b>>>>>>>>

\* structs of k fields named "a", "b", ...
FlatStruct(vals) == <<"struct", [i \in 1..Len(vals) |-> <<96 + i>>], vals>>

StructValues ==
    {FlatStruct(vals) : vals \in SeqsOver({U8V(1), <<"string", <<120>>>>, <<"none", <<"u8">>>>,
                                    <<"some", U8V(200)>>}, MaxElems)}
    \cup {FlatStruct([i \in 1..16 |-> U8V(i)])}
    \cup {Bar(2), Bar(4)}
    \* struct Foo { foo: Vec<Bar> }
    \cup {<<"struct", <<<<102, 111, 111>>>>, <<<<"seq", ShapeOf(Bar(2)), s>>>>>> :
            s \in SeqsOver({Bar(2), Bar(4)}, MaxElems)}
    \* struct Outer { s: Bar, m: BTreeMap<String, u8> }
    \cup {<<"struct", <<<<115>>, <<109>>>>, <<Bar(6), m>>>> : m \in StringU8Maps}

\* aggregates that hold aggregates of another kind
MixedValues ==
    {<<"seq", ShapeOf(Bar(2)), s>> : s \in SeqsOver({Bar(2), Bar(4)}, MaxElems)}
    \cup {<<"seq", <<"map", <<"string">>, <<"u8">>>>, s>> :
            s \in SeqsOver(StringU8Maps, 1)}
    \cup {<<"map", <<"i32">>, ShapeOf(Bar(2)), e>> :
            e \in SortedEntries({I32V(FromNat(1)), I32V(FromNat(2))}, {Bar(2)}, MaxElems)}

\* an enum of n unit variants AAA, AAB, ...
Variants(n) ==
    [i \in 1..n |-> <<65 + (((i - 1) \div 676) % 26), 65 + (((i - 1) \div 26) % 26),
                      65 + ((i - 1) % 26)>>]

Values ==
    PrimitiveValues \cup SeqValues \cup MapValues \cup StructValues \cup MixedValues
    \* a map whose inner body is longer than 65535 bytes
    \cup {<<"map", <<"u8">>, <<"string">>, <<<<U8V(1), <<"string", Text(65536)>>>>>>>>}
    \* a byte blob longer than 65535 bytes
    \cup {<<"bytes", Text(65536)>>}
    \* optional chars, floats, blobs, sequences, maps and structs, and an
    \* optional optional
    \cup {<<"some", v>> :
            v \in {<<"char", <<97>>>>, <<"char", <<195, 169>>>>, <<"string", <<>>>>,
                   <<"f64", F64Bits(0, 1023, 0, 1)>>, <<"bytes", <<1, 2>>>>,
                   <<"bytes", <<>>>>, <<"seq", <<"u8">>, <<U8V(1)>>>>,
                   <<"seq", <<"u8">>, <<>>>>,
                   <<"map", <<"u8">>, <<"u8">>, <<<<U8V(1), U8V(2)>>>>>>,
                   Bar(2), <<"none", <<"u8">>>>, <<"some", U8V(1)>>,
                   <<"enum", Variants(3), 2>>}}
    \* every variant of enums of 1, 3 and MaxVariants variants
    \cup UNION {{<<"enum", Variants(n), k>> : k \in 0..(n - 1)} : n \in {1, 3, MaxVariants}}
    \* floats at the edges of f32: the zeros, the f64 and f32 subnormals, the
    \* smallest and largest f32 exponents, infinities and NaNs, with fractions
    \* that fit 23 bits, that do not, and that lie halfway between two f32
    \cup {<<"f64", F64Bits(sign, exp, hi, lo)>> :
        sign \in {0, 1},
        exp \in {0, 1, 872, 873, 874, 875, 885, 896, 897, 1022, 1023, 1024, 1150, 1151,
                 2046, 2047},
        hi \in {0, 1, 2, 2048, 4194304, 8388607},
        lo \in {0, 1, 268435456, 268435457, 536870911}}
    \cup {<<"f32", F32Bits(sign, e * 8388608 + m)>> :
            sign \in {0, 1}, e \in {0, 1, 126, 127, 254, 255},
            m \in {0, 1, 4194304, 8388607}}

\* the bytes appended after an encoded value
Suffixes == SeqsOver({0, 1, 192, 255}, MaxSuffixLen)

\* payloads of n bytes, and the same cut one byte short
Payloads(n) ==
    UNION {{p, SubSeq(p, 1, n - 1)} : p \in UnsignedSamples(n) \cup SignedSamples(n)}

\* every integer tag with payloads around the powers of two, whole and cut
\* short, and a few tags that are not integers
RawIntInputs ==
    {<<b>> : b \in {0, 1, 127, 128, 144, 160, 192, 194, 202, 224, 225, 255}}
    \cup UNION {{<<tag>> \o p : p \in Payloads(1)} : tag \in {204, 208}}
    \cup UNION {{<<tag>> \o p : p \in Payloads(2)} : tag \in {205, 209}}
    \cup UNION {{<<tag>> \o p : p \in Payloads(4)} : tag \in {206, 210}}
    \cup UNION {{<<tag>> \o p : p \in Payloads(8)} : tag \in {207, 211}}
    \cup {<<>>}

\* extension headers declaring n bytes
ExtHeaders(n) ==
    {<<199, n>>, <<200, 0, n>>, <<201, 0, 0, 0, n>>,
     <<212>>, <<213>>, <<214>>, <<215>>, <<216>>}

\* what may follow the extension type: maps of i32 to i32, whole and cut
\* short, and values that are not maps
ExtBodies ==
    {<<>>, <<128>>, <<129, 1, 2>>, <<130, 1, 2, 3, 4>>, <<129, 1>>, <<130, 1, 2>>,
     <<222, 0, 1, 1, 2>>, <<223, 0, 0, 0, 1, 1, 2>>, <<192>>, <<145, 1>>, <<1>>}

RawMapInputs ==
    {h \o <<t>> \o b : h \in UNION {ExtHeaders(Len(b0)) : b0 \in ExtBodies},
                       t \in {0, GenericMap, 2, 127, 255}, b \in ExtBodies}
    \cup {<<199>>, <<199, 3>>, <<200, 0>>, <<212>>}
    \cup ExtBodies

\* bytes from elsewhere, each with the shape it is decoded at
RawRequests ==
    \* integers in every format, whole and cut short, at every integer width
    \* and every leading tag, alone and before further bytes
    {<<b, <<ty>>>> :
        b \in RawIntInputs \cup {<<t>> : t \in 0..255}
              \cup {<<161, 1>>, <<195, 0>>, <<202, 0, 0, 0, 1>>, <<145, 1>>},
        ty \in IntTypes}
    \* extension envelopes, at a map shape
    \cup {<<b, <<"map", <<"i32">>, <<"i32">>>>>> :
            b \in (RawMapInputs \ RawIntInputs)
                  \* declared lengths of 2^31 and more
                  \cup {<<201, 128, 0, 0, 0, 1, 129, 1, 2>>, <<201, 255, 255, 255, 255, 1>>,
                        <<201, 128, 0, 0, 0, 2, 129, 1, 2>>}}
    \* an enum of three variants: indices in every integer format, in and out
    \* of range, names, and tags that are neither
    \cup {<<b, <<"enum", Variants(3)>>>> :
            b \in RawIntInputs
                  \cup {<<204, 3>>, <<207, 0, 0, 0, 1, 0, 0, 0, 0>>, <<208, 255>>,
                        <<163, 65, 65, 66>>, <<163, 65, 65, 90>>, <<163, 65, 65>>,
                        <<217, 3, 65, 65, 67>>, <<195>>, <<128>>,
                        <<218, 0, 3, 65, 65, 66>>, <<219, 0, 0, 0, 3, 65, 65, 65>>,
                        <<163, 97, 97, 98>>, <<164, 65, 65, 66, 66>>, <<160>>}
                  \cup {<<t>> : t \in 0..255}}
    \* strings and byte blobs under every header, whole, cut short and
    \* without payload, and other tags, at the string, char and blob shapes
    \cup {<<b, <<ty>>>> :
            b \in {<<>>, <<1>>, <<192>>, <<160>>, <<161>>, <<161, 97>>, <<162, 104, 105>>,
                   <<162, 195, 169>>, <<165, 104, 105>>, <<217>>, <<217, 1, 104>>,
                   <<217, 5, 104>>, <<218, 0>>, <<218, 0, 1, 97>>, <<218, 0, 3, 97>>,
                   <<219, 0, 0>>, <<219, 0, 0, 0, 1, 97>>, <<219, 0, 0, 0, 2, 97>>,
                   <<196>>, <<196, 0>>, <<196, 2, 1, 2>>, <<196, 3, 1, 2>>,
                   <<197, 0, 1, 1>>, <<197, 0, 2, 1>>, <<198, 0, 0, 0, 1, 7>>,
                   <<198, 0, 0, 0, 1>>, <<144>>, <<146, 1, 2>>, <<147, 1, 2>>,
                   <<161, 255>>, <<128>>, <<195>>,
                   \* declared lengths of 2^31 and more
                   <<219, 128, 0, 0, 1, 97>>, <<219, 255, 255, 255, 255>>,
                   <<198, 200, 0, 0, 0, 1, 2>>, <<198, 128, 0, 0, 0>>},
            ty \in {"string", "char", "bytes"}}
    \* floats of both widths, whole and cut short, and other tags
    \cup {<<b, <<ty>>>> :
            b \in {<<>>, <<1>>, <<192>>, <<202>>, <<202, 63, 0, 0>>, <<202, 63, 0, 0, 0>>,
                   <<202, 127, 192, 0, 0>>, <<202, 0, 0, 0, 1>>, <<203>>,
                   <<203, 64, 9, 33, 251, 84, 68, 45>>,
                   <<203, 64, 9, 33, 251, 84, 68, 45, 24>>, <<204, 1>>, <<208, 1>>,
                   \* signalling NaNs and an infinity in a Float32
                   <<202, 127, 128, 0, 1>>, <<202, 255, 128, 0, 1>>,
                   <<202, 127, 191, 255, 255>>, <<202, 127, 128, 0, 0>>},
            ty \in {"f32", "f64"}}
    \* every leading tag, Nil before further bytes, and whole and cut
    \* values, at optional shapes
    \cup {<<b, <<"option", sh>>>> :
            b \in {<<t>> : t \in 0..255}
                  \cup {<<>>, <<192, 5>>, <<192, 192>>, <<204, 200>>, <<204>>, <<161, 97>>,
                        <<161>>, <<145, 1>>, <<205, 1, 0>>, <<1, 2>>},
            sh \in {<<"u8">>, <<"string">>, <<"unit">>, <<"seq", <<"u8">>>>,
                    <<"option", <<"u8">>>>}}
    \* extension envelopes and encoded maps at struct shapes, and encoded
    \* structs at a map shape
    \cup {<<b, sh>> :
            b \in RawMapInputs \cup {to_vec(v) : v \in StringU8Maps},
            sh \in {ShapeOf(Bar(2)), <<"struct", <<>>, <<>>>>,
                    ShapeOf(FlatStruct(<<U8V(1), U8V(1)>>))}}
    \cup {<<to_vec(v), <<"map", <<"string">>, <<"u8">>>>>> : v \in StructValues}
    \* every leading tag and whole values of each kind, asked for by
    \* deserialize_any, and a tuple
    \cup {<<b, sh>> :
            b \in {<<t>> : t \in 0..255}
                  \cup {<<>>, <<204, 200>>, <<208, 128>>, <<205, 1, 0>>, <<209, 255, 0>>,
                        <<162, 104, 105>>, <<196, 2, 1, 2>>, <<146, 1, 161, 97>>,
                        <<145, 129>>, <<202, 63, 0, 0, 0>>, <<129, 1, 2>>,
                        <<199, 3, 1, 129, 1, 2>>, <<146, 1, 2>>},
            sh \in {<<"any">>, <<"tuple">>}}
    \* sequences of strings with Nil in the place of a string
    \cup {<<b, <<"seq", <<"string">>>>>> :
            b \in {<<146, 192, 161, 97>>, <<146, 161, 97, 192>>, <<145, 192>>,
                   <<146, 160, 161, 97>>, <<146, 192>>}}
    \* every leading tag, and the array and map headers of every width, at a
    \* sequence shape, at struct Bar { bar: u16 } and at a struct of no fields
    \cup {<<b, sh>> :
            b \in {<<t>> : t \in 0..255}
                  \cup {<<145, 5>>, <<220, 0, 0>>, <<220, 0, 1, 5>>, <<221, 0, 0, 0, 0>>,
                        <<221, 0, 0, 0, 1, 5>>, <<192, 5>>, <<222, 0, 0>>,
                        <<223, 0, 0, 0, 0>>, <<129, 163, 98, 97, 114, 7>>,
                        <<222, 0, 1, 163, 98, 97, 114, 7>>,
                        <<223, 0, 0, 0, 1, 163, 98, 97, 114, 7>>,
                        \* declared counts of 2^31 and more
                        <<221, 128, 0, 0, 0>>, <<221, 128, 0, 0, 0, 1>>,
                        <<221, 255, 255, 255, 255, 1, 2>>, <<223, 255, 0, 0, 0>>,
                        <<223, 128, 0, 0, 0, 163, 98, 97, 114, 7>>},
            sh \in {<<"seq", <<"u8">>>>, ShapeOf(Bar(2)), <<"struct", <<>>, <<>>>>}}

(***************************************************************************)
(* The state machine: a value is encoded with to_vec and the bytes, with   *)
(* or without bytes appended, are decoded with from_slice at the shape of  *)
(* the value; or bytes that no encoder produced are decoded at a shape.    *)
(* The cursors of the decoder and the sub-encoders of the encoder are      *)
(* stepped call by call further down: `remaining` is the count a cursor    *)
(* holds (elements_in_arr, entries_in_map), `sub_buffer` the buffer of a   *)
(* sub-encoder (array_serializer, map_serializer, struct_serializer) and   *)
(* `pushed` its count (array_len, map_entries, entries).                   *)
(***************************************************************************)
Init ==
    /\ pc = "idle"
    /\ value = <<>>
    /\ buffer = <<>>
    /\ input = <<>>
    /\ shape = <<>>
    /\ position = 0
    /\ result = ErrR("", 0, 0)
    /\ remaining = 0
    /\ sub_buffer = <<>>
    /\ pushed = 0

\* to_vec(&v)
ToVec ==
    /\ pc = "idle"
    /\ \E v \in Values :
        /\ value' = v
        /\ buffer' = to_vec(v)
    /\ pc' = "encoded"
    /\ UNCHANGED <<input, shape, position, result, remaining, sub_buffer, pushed>>

\* from_slice::<T>(encode(v) ++ s), T the type of v
FromSlice ==
    /\ pc = "encoded"
    /\ \E s \in Suffixes :
        /\ input' = buffer \o s
        /\ shape' = ShapeOf(value)
        /\ result' = from_slice(buffer \o s, ShapeOf(value))
        /\ position' = result'.pos
    /\ pc' = "decoded"
    /\ UNCHANGED <<value, buffer, remaining, sub_buffer, pushed>>

\* from_slice::<T>(bytes) on bytes from elsewhere
FromSliceRaw ==
    /\ pc = "idle"
    /\ \E rq \in RawRequests :
        /\ input' = rq[1]
        /\ shape' = rq[2]
        /\ result' = from_slice(rq[1], rq[2])
        /\ position' = result'.pos
    /\ pc' = "raw"
    /\ UNCHANGED <<value, buffer, remaining, sub_buffer, pushed>>

Next == ToVec \/ FromSlice \/ FromSliceRaw

Spec == Init /\ [][Next]_vars

(***************************************************************************)
(* The decoder call by call: the Deserializer is the pair of `input` and   *)
(* `position`; a visitor drives the cursor deserialize_seq or              *)
(* deserialize_struct hands it, one next_element / next_key / next_value   *)
(* call per step, and `value` holds what the calls have yielded so far.    *)
(***************************************************************************)
\* the bytes and shapes a cursor is opened on: the requests on bytes from
\* elsewhere, the encodings of the aggregate values, and headers that
\* declare more than the buffer holds
CursorRequests ==
    RawRequests
    \cup {<<to_vec(v), ShapeOf(v)>> : v \in SeqValues \cup StructValues \cup MapValues}
    \cup {<<b, <<"seq", <<ty>>>>>> :
            b \in {<<220, 0, 5, 192>>, <<220, 0, 5, 1, 2>>, <<147, 192, 192>>, <<149, 1>>,
                   <<221, 0, 0, 0, 9, 192>>, <<147, 161, 97, 160, 192>>},
            ty \in {"string", "u8", "bytes"}}
    \cup {<<b, <<"seq", <<"seq", <<"u8">>>>>>>> :
            b \in {<<220, 0, 5, 192>>, <<146, 145, 1, 144>>, <<147, 145, 1>>}}
    \cup {<<b, sh>> :
            b \in {<<130, 161, 97, 1, 161, 98, 2>>, <<130, 161, 97, 1>>,
                   <<130, 161, 97, 1, 161, 97, 2>>, <<131, 161, 97, 1, 161, 98, 2>>,
                   <<129, 161, 122, 1>>, <<222, 0, 2, 161, 98, 1, 161, 97, 2>>,
                   <<222, 0, 9, 161, 97, 1>>, <<129, 1, 1>>, <<129>>},
            sh \in {ShapeOf(FlatStruct(<<U8V(1), U8V(2)>>)),
                    <<"map", <<"string">>, <<"u8">>>>}}

\* deserialize_seq: the array length is read and ArrayReadAccess::new
\* holds it
DeserializeSeq ==
    /\ pc = "idle"
    /\ \E rq \in CursorRequests :
        /\ rq[2][1] = "seq"
        /\ input' = rq[1]
        /\ shape' = rq[2]
        /\ result' = read_array_length(rq[1], 0)
    /\ position' = result'.pos
    /\ remaining' = IF result'.ok THEN result'.val ELSE 0
    /\ pc' = IF result'.ok THEN "seq" ELSE "failed"
    /\ UNCHANGED <<value, buffer, sub_buffer, pushed>>

\* next_element_seed without `self.elements_in_arr -= 1`
NextElement_NoDecrement ==
    /\ pc \in {"seq", "seq_end"}
    /\ IF remaining = 0 \/ Len(value) > Len(input)
       THEN /\ result' = OkR(<<"none", shape[2]>>, position)
            /\ pc' = "seq_end"
            /\ UNCHANGED <<remaining, position, value>>
       ELSE /\ remaining' = remaining
            /\ result' = visit_some(Deserialize(input, position, shape[2]))
            /\ position' = result'.pos
            /\ value' = IF result'.ok THEN Append(value, result'.val[2]) ELSE value
            /\ pc' = IF result'.ok THEN "seq" ELSE "failed"
    /\ UNCHANGED <<buffer, input, shape, sub_buffer, pushed>>

\* ArrayReadAccess::next_element_seed, called by the Vec visitor, which
\* pushes what it yields
NextElement ==
    /\ pc \in {"seq", "seq_end"}
    /\ IF remaining = 0
       THEN /\ result' = OkR(<<"none", shape[2]>>, position)
            /\ pc' = "seq_end"
            /\ UNCHANGED <<remaining, position, value>>
       ELSE /\ remaining' = U32Minus(remaining, 1)
            /\ result' = visit_some(Deserialize(input, position, shape[2]))
            /\ position' = result'.pos
            /\ value' = IF result'.ok THEN Append(value, result'.val[2]) ELSE value
            /\ pc' = IF result'.ok THEN "seq" ELSE "failed"
    /\ UNCHANGED <<buffer, input, shape, sub_buffer, pushed>>

\* deserialize_map up to the cursor, given the extension header it reads
\* first (`?`): the test of the extension type, then the map length
map_length_after_ext(ext, buf) ==
    IF ~ext.ok THEN ext
    ELSE IF ext.val[2] = "GenericMap" THEN ErrR("ExpectedExt", 0, ext.pos)
    ELSE read_map_length(buf, ext.pos)

\* deserialize_struct and deserialize_map: the map length is read, behind
\* the extension header for deserialize_map, and MapReadAccess::new holds it
DeserializeMap ==
    /\ pc = "idle"
    /\ \E rq \in CursorRequests :
        /\ rq[2][1] \in {"struct", "map"}
        /\ input' = rq[1]
        /\ shape' = rq[2]
        /\ result' = IF rq[2][1] = "struct" THEN read_map_length(rq[1], 0)
                     ELSE map_length_after_ext(read_ext_length_and_type(rq[1], 0), rq[1])
    /\ position' = result'.pos
    /\ remaining' = IF result'.ok THEN result'.val ELSE 0
    /\ pc' = IF result'.ok THEN "key" ELSE "failed"
    /\ UNCHANGED <<value, buffer, sub_buffer, pushed>>

\* the key the visitor asks for: a field identifier (deserialize_identifier
\* -> deserialize_str) of a struct, the key type of a map
KeyShape(sh) == IF sh[1] = "struct" THEN <<"string">> ELSE sh[2]

\* the value the visitor asks for after the key k: the type of the field k
\* names, IgnoredAny for a name that is no field
ValueShape(sh, k) ==
    IF sh[1] = "map" THEN sh[3]
    ELSE IF FieldIndex(sh[2], k[2]) = 0 THEN <<"ignored_any">>
    ELSE sh[3][FieldIndex(sh[2], k[2])]

\* next_key_seed with the count taken down at the key as well
NextKey_Decrementing ==
    /\ pc \in {"key", "map_end"}
    /\ IF remaining = 0
       THEN /\ result' = OkR(<<"none", KeyShape(shape)>>, position)
            /\ pc' = "map_end"
            /\ UNCHANGED <<position, value, remaining>>
       ELSE /\ result' = visit_some(Deserialize(input, position, KeyShape(shape)))
            /\ position' = result'.pos
            /\ remaining' = U32Minus(remaining, 1)
            /\ value' = IF result'.ok THEN Append(value, <<result'.val[2]>>) ELSE value
            /\ pc' = IF ~result'.ok THEN "failed"
                     ELSE IF shape[1] = "struct"
                             /\ \E i \in 1..Len(value) : value[i][1] = result'.val[2]
                         THEN "duplicate"
                     ELSE "val"
    /\ UNCHANGED <<buffer, input, shape, sub_buffer, pushed>>

\* next_key_seed, called by the visitor, which keeps the key and compares
\* it with the keys it has
NextKey ==
    /\ pc \in {"key", "map_end"}
    /\ IF remaining = 0
       THEN /\ result' = OkR(<<"none", KeyShape(shape)>>, position)
            /\ pc' = "map_end"
            /\ UNCHANGED <<position, value>>
       ELSE /\ result' = visit_some(Deserialize(input, position, KeyShape(shape)))
            /\ position' = result'.pos
            /\ value' = IF result'.ok THEN Append(value, <<result'.val[2]>>) ELSE value
            \* a derived struct visitor fails on a field it has seen before
            /\ pc' = IF ~result'.ok THEN "failed"
                     ELSE IF shape[1] = "struct"
                             /\ \E i \in 1..Len(value) : value[i][1] = result'.val[2]
                         THEN "duplicate"
                     ELSE "val"
    /\ UNCHANGED <<buffer, input, shape, remaining, sub_buffer, pushed>>

\* next_value_seed, called by the visitor once it has a key: the count
\* goes down and the value is decoded; deserialize_ignored_any is todo!().
\* From 0 the u32 wraps to 2^32 - 1, or the subtraction panics where the
\* build checks overflow.
NextValue ==
    /\ pc = "val"
    /\ \E checked \in IF remaining = 0 THEN {TRUE, FALSE} ELSE {FALSE} :
        \* the panic of a checked subtraction comes before the store
        /\ remaining' = IF checked THEN remaining ELSE U32Minus(remaining, 1)
        /\ result' = IF checked \/ ValueShape(shape, value[Len(value)][1]) = <<"ignored_any">>
                     THEN ErrR("Panic", 0, position)
                     ELSE Deserialize(input, position,
                                      ValueShape(shape, value[Len(value)][1]))
    /\ position' = result'.pos
    /\ value' = IF result'.ok
                THEN [value EXCEPT ![Len(value)] = Append(@, result'.val)]
                ELSE value
    /\ pc' = IF result'.ok THEN "key" ELSE "failed"
    /\ UNCHANGED <<buffer, input, shape, sub_buffer, pushed>>

\* Deserializer::from_slice(bytes): the cursor at 0
NewDeserializer ==
    /\ pc = "idle"
    /\ \E rq \in CursorRequests : input' = rq[1]
    /\ position' = 0
    /\ pc' = "reader"
    /\ UNCHANGED <<value, buffer, shape, result, remaining, sub_buffer, pushed>>

\* self.peek_format()
PeekFormat ==
    /\ pc \in {"reader", "peeked", "taken", "read"}
    /\ result' = peek_format(input, position)
    /\ position' = result'.pos
    /\ pc' = "peeked"
    /\ UNCHANGED <<value, buffer, input, shape, remaining, sub_buffer, pushed>>

\* Format::get_format(self)
GetFormat ==
    /\ pc \in {"reader", "peeked", "taken", "read"}
    /\ result' = get_format(input, position)
    /\ position' = result'.pos
    /\ pc' = "taken"
    /\ UNCHANGED <<value, buffer, input, shape, remaining, sub_buffer, pushed>>

\* ReadBytesExt::read_u8 / read_u16 / read_u32 / read_u64 and their signed
\* and float likes
ReadExact ==
    /\ pc \in {"reader", "peeked", "taken", "read"}
    /\ \E n \in {1, 2, 4, 8} : result' = read_exact(input, position, n)
    /\ position' = result'.pos
    /\ pc' = "read"
    /\ UNCHANGED <<value, buffer, input, shape, remaining, sub_buffer, pushed>>

CursorNext ==
    \/ DeserializeSeq \/ NextElement
    \/ DeserializeMap \/ NextKey \/ NextValue
    \/ NewDeserializer \/ PeekFormat \/ GetFormat \/ ReadExact

CursorSpec == Init /\ [][CursorNext]_vars

(***************************************************************************)
(* The encoder call by call: `buffer` is the buffer of the parent encoder, *)
(* `sub_buffer` and `pushed` are the buffer and the count of the           *)
(* sub-encoder of one array, map or struct, `shape` tells which, and       *)
(* `value` holds what has been serialized into the sub-encoder, in order.  *)
(***************************************************************************)
\* what is pushed after n pushes: the first MaxElems pushes draw from
\* integers, strings, a nested array and a path that is not UTF-8, whose
\* Serialize impl returns Err(Error::custom(..)); later pushes are all the
\* u8 0
Pushable(n) ==
    IF n < MaxElems
    THEN {U8V(1), <<"string", <<104, 105>>>>, SeqI32(<<I32V(FromNat(9))>>),
          <<"path_not_utf8">>}
    ELSE {U8V(0)}

\* serialize_seq / serialize_map / serialize_struct: ArraySerializer::new,
\* MapSerializer::new, StructSerializer::new over the parent encoder, which
\* holds what was written to it before
NewSubEncoder ==
    /\ pc = "idle"
    /\ \E kind \in {"array", "map", "struct"},
          prior \in {<<>>, <<1>>, <<146, 162, 104, 105>>} :
        /\ shape' = <<kind>>
        /\ buffer' = prior
    /\ sub_buffer' = <<>>
    /\ pushed' = 0
    /\ pc' = "open"
    /\ UNCHANGED <<value, input, position, result, remaining>>

\* serialize_element that writes the element straight to the parent encoder
SerializeElement_Unbuffered ==
    /\ pc = "open"
    /\ shape[1] = "array"
    /\ pushed < MaxPushed
    /\ \E v \in Pushable(pushed) :
        IF v[1] = "path_not_utf8"
        THEN pc' = "enc_failed" /\ UNCHANGED <<buffer, pushed, value>>
        ELSE /\ buffer' = buffer \o Serialize(v)
             /\ pushed' = pushed + 1
             /\ value' = Append(value, v)
             /\ pc' = "open"
    /\ UNCHANGED <<sub_buffer, input, shape, position, result, remaining>>

\* SerializeSeq::serialize_element
SerializeElement ==
    /\ pc = "open"
    /\ shape[1] = "array"
    /\ pushed < MaxPushed
    /\ \E v \in Pushable(pushed) :
        IF v[1] = "path_not_utf8"
        THEN pc' = "enc_failed" /\ UNCHANGED <<sub_buffer, pushed, value>>
        ELSE /\ sub_buffer' = sub_buffer \o Serialize(v)
             /\ pushed' = pushed + 1
             /\ value' = Append(value, v)
             /\ pc' = "open"
    /\ UNCHANGED <<buffer, input, shape, position, result, remaining>>

\* SerializeStruct::serialize_field: the key, then the value
SerializeField ==
    /\ pc = "open"
    /\ shape[1] = "struct"
    /\ pushed < MaxPushed
    /\ \E key \in {<<97>>} \cup {<<98, 97, 114>> : i \in 1..(MaxElems - pushed)},
          v \in Pushable(pushed) :
        IF v[1] = "path_not_utf8"
        THEN /\ sub_buffer' = sub_buffer \o serialize_str(key)
             /\ value' = Append(value, <<"string", key>>)
             /\ pc' = "enc_failed"
             /\ UNCHANGED pushed
        ELSE /\ sub_buffer' = sub_buffer \o serialize_str(key) \o Serialize(v)
             /\ pushed' = pushed + 1
             /\ value' = value \o <<<<"string", key>>, v>>
             /\ pc' = "open"
    /\ UNCHANGED <<buffer, input, shape, position, result, remaining>>

\* SerializeMap::serialize_key
SerializeKey ==
    /\ pc = "open"
    /\ shape[1] = "map"
    /\ pushed < MaxPushed
    /\ \E k \in Pushable(pushed) :
        IF k[1] = "path_not_utf8"
        THEN pc' = "enc_failed" /\ UNCHANGED <<sub_buffer, pushed, value>>
        ELSE /\ sub_buffer' = sub_buffer \o Serialize(k)
             /\ pushed' = pushed + 1
             /\ value' = Append(value, k)
             /\ pc' = "map_value"
    /\ UNCHANGED <<buffer, input, shape, position, result, remaining>>

\* SerializeMap::serialize_value
SerializeValue ==
    /\ pc = "map_value"
    /\ \E v \in Pushable(pushed - 1) :
        IF v[1] = "path_not_utf8"
        THEN pc' = "enc_failed" /\ UNCHANGED <<sub_buffer, value>>
        ELSE /\ sub_buffer' = sub_buffer \o Serialize(v)
             /\ value' = Append(value, v)
             /\ pc' = "open"
    /\ UNCHANGED <<buffer, input, shape, position, result, remaining, pushed>>

\* SerializeSeq::end, SerializeStruct::end, SerializeMap::end
End ==
    /\ pc = "open"
    /\ buffer' = buffer \o
            CASE shape[1] = "array"  -> ArraySerializer_end(pushed, sub_buffer)
              [] shape[1] = "struct" -> StructSerializer_end(pushed, sub_buffer)
              [] shape[1] = "map"    -> MapSerializer_end(pushed, sub_buffer)
    /\ pc' = "ended"
    /\ UNCHANGED <<value, input, shape, position, result, remaining, sub_buffer, pushed>>

\* write_array_length / write_map_length on a fresh writer, at the lengths
\* where the form of the prefix changes and at the ends of u32 (lengths
\* above 2^31 - 1 are left out)
WriteLength ==
    /\ pc = "idle"
    /\ \E kind \in {"array", "map"},
          length \in {0, 1, 15, 16, 17, 255, 256, 65535, 65536, 65537, 16777216,
                      2147483647} :
        /\ shape' = <<kind>>
        /\ pushed' = length
        /\ buffer' = IF kind = "array" THEN write_array_length(length)
                     ELSE write_map_length(length)
    /\ pc' = "length_written"
    /\ UNCHANGED <<value, input, position, result, remaining, sub_buffer>>

EncoderNext ==
    \/ NewSubEncoder \/ SerializeElement \/ SerializeField
    \/ SerializeKey \/ SerializeValue \/ End \/ WriteLength

EncoderSpec == Init /\ [][EncoderNext]_vars

(***************************************************************************)
(* Properties.                                                             *)
(***************************************************************************)
ExtTags == {199, 200, 201} \cup 212..216

MapPrefixes == 128..143 \cup {222, 223}

\* the bytes of an extension header: the tag and its length field
ExtHeaderLen(tag) ==
    CASE tag = 199 -> 2 [] tag = 200 -> 3 [] tag = 201 -> 5 [] OTHER -> 1

\* C1: every primitive value (bool, integer of any width, char, string, byte
\* blob, unit, optional) decodes from its own encoding, at its own shape, to
\* itself.
C1_PrimitiveRoundTrip ==
    (pc = "decoded" /\ value[1] \in PrimitiveTypes /\ input = buffer)
        => (result.ok /\ result.val = value)

\* C2: every sequence, generic map and structure decodes from its own
\* encoding, at its own shape, to itself.
C2_AggregateRoundTrip ==
    (pc = "decoded" /\ value[1] \in {"seq", "map", "struct"} /\ input = buffer)
        => (result.ok /\ result.val = value)

\* what decoding a generic map yields once the extension header and a
\* GenericMap type byte are behind the cursor at position p
NestedMapOutcome(buf, p, sh) ==
    at_end(map_of_length(read_map_length(buf, p), buf, sh[2], sh[3]), buf)

\* C3: a generic-map decode of bytes that start with an extension header
\* and a type byte reads the nested map and yields its entries when the type
\* byte is GenericMap, and fails with ExpectedExt for any other type byte.
C3_GenericMapDecode ==
    (/\ pc = "raw"
     /\ shape[1] = "map"
     /\ Len(input) > 0
     /\ input[1] \in ExtTags
     /\ Len(input) > ExtHeaderLen(input[1]))
        => LET p == ExtHeaderLen(input[1]) + 1
           IN  IF input[p] = GenericMap
               THEN result = NestedMapOutcome(input, p, shape)
               ELSE ~result.ok /\ result.err = "ExpectedExt"

\* C4: the encoding of a non-empty generic map starts with an extension
\* header (tag 0xc7, 0xc8, 0xc9 or 0xd4..0xd8), then the type byte 0x01, then
\* a map-length prefix byte (0x80..0x8f, 0xde or 0xdf).
C4_GenericMapEnvelope ==
    (pc \in {"encoded", "decoded"} /\ value[1] = "map" /\ Len(value[4]) > 0)
        => /\ buffer[1] \in ExtTags
           /\ Len(buffer) >= ExtHeaderLen(buffer[1]) + 2
           /\ buffer[ExtHeaderLen(buffer[1]) + 1] = 1
           /\ buffer[ExtHeaderLen(buffer[1]) + 2] \in MapPrefixes

\* a non-empty generic map whose body needs the Ext16 header has been encoded
C4_Witness ==
    pc = "encoded" /\ value[1] = "map" /\ Len(value[4]) > 0 /\ buffer[1] = 200

\* the bare-map layout of structures, through sequences and structures
MapPrefix(n) == IF n < 16 THEN <<128 + n>> ELSE <<222, n \div 256, n % 256>>

ArrayPrefix(n) == IF n < 16 THEN <<144 + n>> ELSE <<220, n \div 256, n % 256>>

RECURSIVE BareLayout(_)
BareLayout(v) ==
    IF v[1] = "struct"
    THEN MapPrefix(Len(v[3])) \o
         Concat([i \in 1..Len(v[3]) |->
                    <<160 + Len(v[2][i])>> \o v[2][i] \o BareLayout(v[3][i])])
    ELSE IF v[1] = "seq"
    THEN ArrayPrefix(Len(v[3])) \o Concat([i \in 1..Len(v[3]) |-> BareLayout(v[3][i])])
    ELSE to_vec(v)

\* C5: a structure, at the root or inside sequences and structures, is
\* encoded as a map-length prefix and then, per field in declaration order,
\* the field name as a string and the value; no extension header, no
\* GenericMap type byte.
C5_StructIsBareMap ==
    (pc \in {"encoded", "decoded"} /\ value[1] \in {"struct", "seq"})
        => /\ buffer = BareLayout(value)
           /\ value[1] = "struct" => buffer[1] \in MapPrefixes \ ExtTags

\* a sequence of two structures has been encoded
C5_Witness ==
    /\ pc = "encoded"
    /\ value[1] = "seq"
    /\ Len(value[3]) = 2
    /\ value[3][1][1] = "struct"

\* the number of bytes of a word after its leading zero bytes
SigBytes(w) == 8 - Cardinality({i \in 1..8 : \A j \in 1..i : w[j] = 0})

ShortestUnsigned(w) ==
    IF SigBytes(w) <= 1 /\ w[8] < 128 THEN <<w[8]>>
    ELSE IF SigBytes(w) <= 1 THEN <<204, w[8]>>
    ELSE IF SigBytes(w) <= 2 THEN <<205, w[7], w[8]>>
    ELSE IF SigBytes(w) <= 4 THEN <<206, w[5], w[6], w[7], w[8]>>
    ELSE <<207>> \o w

\* C6: an unsigned integer u is encoded as the single byte u below 128, as
\* 0xcc and 1 byte up to 255, 0xcd and 2 bytes up to 65535, 0xce and 4 bytes
\* up to 2^32 - 1 and 0xcf and 8 bytes above, big-endian, whatever its
\* declared width.
C6_ShortestUnsigned ==
    (pc \in {"encoded", "decoded"} /\ value[1] \in UnsignedTypes)
        => buffer = ShortestUnsigned(ZeroExt(value[2]))

\* a u16 that fits one byte has been encoded in the Uint8 form
C6_Witness ==
    pc = "encoded" /\ value = <<"u16", <<0, 255>>>> /\ buffer = <<204, 255>>

\* a negative word fits n bytes when the bytes before its last n are all
\* 0xff and the sign bit of the first kept byte is set
FitsNegative(w, n) == (\A j \in 1..(8 - n) : w[j] = 255) /\ w[9 - n] >= 128

ShortestSigned(w) ==
    IF w[1] < 128 THEN ShortestUnsigned(w)
    ELSE IF FitsNegative(w, 1) /\ w[8] >= 224 THEN <<w[8]>>
    ELSE IF FitsNegative(w, 1) THEN <<208, w[8]>>
    ELSE IF FitsNegative(w, 2) THEN <<209, w[7], w[8]>>
    ELSE IF FitsNegative(w, 4) THEN <<210, w[5], w[6], w[7], w[8]>>
    ELSE <<211>> \o w

\* C7: a signed integer i is encoded as the unsigned i when i >= 0, as the
\* single byte 0xe0..0xff when -32 <= i < 0, and otherwise in the narrowest
\* of Int8 (0xd0), Int16 (0xd1), Int32 (0xd2), Int64 (0xd3) that holds it,
\* big-endian two's complement.
C7_SignedTable ==
    (pc \in {"encoded", "decoded"} /\ value[1] \in SignedTypes)
        => buffer = ShortestSigned(SignExt(value[2]))

\* the i32 -33, one below the negative fixint range, has been encoded as Int8
C7_Witness ==
    pc = "encoded" /\ value = <<"i32", <<255, 255, 255, 223>>>> /\ buffer = <<208, 223>>

\* C8: decoding an encoded value followed by at least one more byte fails
\* with TrailingCharacters, and a decode succeeds only with the cursor at the
\* end of the buffer.
C8_TrailingRejected ==
    pc = "decoded"
        => /\ Len(input) > Len(buffer)
                => ~result.ok /\ result.err = "TrailingCharacters"
           /\ result.ok => position = Len(input)

\* C9 as stated: an unsigned decode of an Int16-encoded value fails if and
\* only if the encoded value is negative.
C9_FailsIffNegative ==
    (/\ pc = "raw"
     /\ shape[1] \in UnsignedTypes
     /\ Len(input) = 3
     /\ input[1] = 209)
        => (~result.ok <=> input[2] >= 128)

\* C9: an unsigned decode of width W of an Int16-encoded value v fails with
\* ExpectedUInteger when v is negative and with an overflow Message when
\* v > 2^W - 1 (which an Int16 reaches for W = 8 only); otherwise it yields v.
C9_FailsIffNegativeOrTooWide ==
    (/\ pc = "raw"
     /\ shape[1] \in UnsignedTypes
     /\ Len(input) = 3
     /\ input[1] = 209)
        => LET W == WidthOf(shape[1])
               v == <<input[2], input[3]>>
           IN  IF input[2] >= 128
               THEN ~result.ok /\ result.err = "ExpectedUInteger"
               ELSE IF W = 1 /\ 256 * input[2] + input[3] > 255
               THEN ~result.ok /\ result.err = "Message" /\ result.bits = 8
               ELSE result.ok /\ result.val = <<shape[1], LowBytes(ZeroExt(v), W)>>

\* the Int16 encoding of 256 has been decoded as a u8, and has failed
C9_Witness ==
    /\ pc = "raw"
    /\ shape = <<"u8">>
    /\ input = <<209, 1, 0>>
    /\ ~result.ok
    /\ result.err = "Message"

\* the bytes of the payload an integer tag announces
IntPayloadLen(tag) ==
    CASE tag \in {204, 208} -> 1
      [] tag \in {205, 209} -> 2
      [] tag \in {206, 210} -> 4
      [] tag \in {207, 211} -> 8
      [] OTHER -> 0

IntTags == 0..127 \cup 224..255 \cup 204..211

\* the integer a whole integer encoding denotes, as a 64-bit word: fixints
\* and Int* payloads sign-extended, Uint* payloads zero-extended
Denoted(buf) ==
    IF buf[1] < 128 \/ buf[1] >= 224 THEN SignExt(<<buf[1]>>)
    ELSE IF buf[1] <= 207 THEN ZeroExt(Tail(buf))
    ELSE SignExt(Tail(buf))

\* C10: a signed decode of width W fails with an overflow Message on a
\* Uint64-encoded value above i64::MAX; for every other integer encoding it
\* yields the encoded integer when that lies in [-2^(W-1), 2^(W-1) - 1] and
\* fails with an overflow Message naming W bits otherwise; a returned value
\* is never a wrapped or truncated one.
C10_SignedDecode ==
    (/\ pc = "raw"
     /\ shape[1] \in SignedTypes
     /\ Len(input) > 0
     /\ input[1] \in IntTags
     /\ Len(input) = 1 + IntPayloadLen(input[1]))
        => LET W == WidthOf(shape[1])
               x == Denoted(input)
           IN  IF input[1] = 207 /\ input[2] >= 128
               THEN ~result.ok /\ result.err = "Message" /\ result.bits = 64
               ELSE IF SignExt(LowBytes(x, W)) = x
               THEN result.ok /\ result.val = <<shape[1], LowBytes(x, W)>>
               ELSE ~result.ok /\ result.err = "Message" /\ result.bits = 8 * W

\* the Uint64 encoding of 2^63 has been decoded as an i64, and has failed
C10_Witness ==
    /\ pc = "raw"
    /\ shape = <<"i64">>
    /\ input = <<207, 128, 0, 0, 0, 0, 0, 0, 0>>
    /\ ~result.ok
    /\ result.err = "Message"

\* C11: the unit variant of declared index k is encoded as k in the shortest
\* unsigned form, and decoding those bytes against the same variant list
\* yields the same variant, for every k below the number of variants.
C11_UnitVariantRoundTrip ==
    (pc \in {"encoded", "decoded"} /\ value[1] = "enum")
        => /\ buffer = ShortestUnsigned(FromNat(value[3]))
           /\ (pc = "decoded" /\ input = buffer)
                => result.ok /\ result.val = value /\ position = Len(input)

\* variant 200 of the largest enum, encoded in the Uint8 form, has been
\* decoded back
C11_Witness ==
    /\ pc = "decoded"
    /\ value[1] = "enum"
    /\ Len(value[2]) = MaxVariants
    /\ value[3] = 200
    /\ input = <<204, 200>>
    /\ result.ok
    /\ result.val = value

\* an f64 that is the value of some f32: a zero, an infinity, or a number
\* whose fraction fits the 23 bits of an f32 normal or the fewer bits of an
\* f32 subnormal; never a NaN, which equals nothing
RepresentableF32(w) ==
    IF F64Exp(w) = 2047 THEN F64Hi(w) = 0 /\ F64Lo(w) = 0
    ELSE IF F64Exp(w) = 0 THEN F64Hi(w) = 0 /\ F64Lo(w) = 0
    ELSE IF F64Exp(w) >= 1151 THEN FALSE
    ELSE IF F64Exp(w) >= 897 THEN F64Lo(w) = 0
    ELSE IF F64Exp(w) >= 874 THEN F64Lo(w) = 0 /\ F64Hi(w) % Pow2(897 - F64Exp(w)) = 0
    ELSE FALSE

\* C12: an f64 f is encoded as 0xca and 4 bytes when (f as f32) as f64 == f
\* exactly, and as 0xcb and 8 bytes otherwise; an f32 is widened and follows
\* the same rule.
C12_FloatNarrowing ==
    (pc \in {"encoded", "decoded"} /\ value[1] \in {"f32", "f64"})
        => IF RepresentableF32(IF value[1] = "f32" THEN f32_as_f64(value[2]) ELSE value[2])
           THEN buffer[1] = 202 /\ Len(buffer) = 5
           ELSE buffer[1] = 203 /\ Len(buffer) = 9

\* the largest f32 plus half a unit in its last place, which rounds to
\* infinity, has been encoded in 8 bytes
C12_Witness ==
    /\ pc = "encoded"
    /\ value = <<"f64", F64Bits(0, 1150, 8388607, 268435456)>>
    /\ buffer[1] = 203
    /\ Len(buffer) = 9

\* the number of bytes of the extension header that precede the type byte
\* for an inner body of n bytes
ExtLenHeader(n) ==
    IF n <= 255 THEN <<199, n>>
    ELSE IF n <= 65535 THEN <<200, n \div 256, n % 256>>
    ELSE <<201, n \div 16777216, (n \div 65536) % 256, (n \div 256) % 256, n % 256>>

\* the byte length of the inner body of a generic map: its map-length
\* prefix and the encodings of its keys and values, nested envelopes whole
BodyLen(v) ==
    Len(MapPrefix(Len(v[4])))
    + Len(Concat([i \in 1..Len(v[4]) |-> to_vec(v[4][i][1]) \o to_vec(v[4][i][2])]))

\* C13: the extension header of a generic map is Ext8 when the inner body
\* has at most 255 bytes, Ext16 when at most 65535 and Ext32 otherwise, and
\* its length field is the byte length of the inner body, the extension
\* type byte not counted.
C13_ExtLength ==
    (pc \in {"encoded", "decoded"} /\ value[1] = "map")
        => /\ SubSeq(buffer, 1, Len(ExtLenHeader(BodyLen(value)))) = ExtLenHeader(BodyLen(value))
           /\ Len(buffer) = Len(ExtLenHeader(BodyLen(value))) + 1 + BodyLen(value)

\* a map whose inner body has more than 65535 bytes has been encoded under
\* an Ext32 header that declares the length of that body
C13_Witness ==
    /\ pc = "encoded"
    /\ value[1] = "map"
    /\ BodyLen(value) > 65535
    /\ buffer[1] = 201
    /\ Len(buffer) = BodyLen(value) + 6

\* the header of a string or byte blob: <<bytes of the header, declared
\* length>> for a complete header, <<0, 0>> otherwise
PayloadHeader(buf) ==
    IF Len(buf) = 0 THEN <<0, 0>>
    ELSE IF buf[1] \in 160..191 THEN <<1, buf[1] - 160>>
    ELSE IF buf[1] \in {217, 196} /\ Len(buf) >= 2 THEN <<2, buf[2]>>
    ELSE IF buf[1] \in {218, 197} /\ Len(buf) >= 3 THEN <<3, 256 * buf[2] + buf[3]>>
    ELSE IF buf[1] \in {219, 198} /\ Len(buf) >= 5 /\ buf[2] = 0
        THEN <<5, 65536 * buf[3] + 256 * buf[4] + buf[5]>>
    ELSE <<0, 0>>

\* C14: when the header of a string or byte blob declares n bytes and fewer
\* than n remain, the decode fails and never yields a shorter value; an
\* integer or float payload with too few bytes remaining fails as well.
C14_TruncatedRejected ==
    /\ (/\ pc = "raw"
        /\ shape[1] \in {"string", "bytes"}
        /\ PayloadHeader(input)[1] > 0
        /\ Len(input) - PayloadHeader(input)[1] < PayloadHeader(input)[2])
            => ~result.ok
    /\ (/\ pc = "raw"
        /\ shape[1] \in IntTypes \cup {"f32", "f64"}
        /\ Len(input) > 0
        /\ input[1] \in IntTags \cup {202, 203}
        /\ Len(input) < 1 + (IF input[1] = 202 THEN 4
                              ELSE IF input[1] = 203 THEN 8
                              ELSE IntPayloadLen(input[1])))
            => ~result.ok

\* C15: a string decode at a Nil byte yields the empty string and consumes
\* the Nil: [0xc0] decodes to "" with nothing left over, and in a sequence
\* the string after a Nil is read from the byte after it.
C15_NilString ==
    /\ (pc = "raw" /\ shape = <<"string">> /\ input = <<192>>)
            => result.ok /\ result.val = <<"string", <<>>>> /\ position = 1
    /\ (pc = "raw" /\ shape = <<"seq", <<"string">>>> /\ input = <<146, 192, 161, 97>>)
            => /\ result.ok
               /\ result.val = <<"seq", <<"string">>,
                                 <<<<"string", <<>>>>, <<"string", <<97>>>>>>>>

\* C16: an empty byte blob is encoded as the single byte Nil, a blob of n > 0
\* bytes as Bin8, Bin16 or Bin32 by the width of n with the n bytes after,
\* and decoding the encoding at the blob shape yields the blob, the empty
\* one included.
C16_BlobRoundTrip ==
    (pc \in {"encoded", "decoded"} /\ value[1] = "bytes")
        => /\ buffer =
                IF Len(value[2]) = 0 THEN <<192>>
                ELSE IF Len(value[2]) <= 255 THEN <<196, Len(value[2])>> \o value[2]
                ELSE IF Len(value[2]) <= 65535
                    THEN <<197, Len(value[2]) \div 256, Len(value[2]) % 256>> \o value[2]
                ELSE <<198, Len(value[2]) \div 16777216, (Len(value[2]) \div 65536) % 256,
                       (Len(value[2]) \div 256) % 256, Len(value[2]) % 256>> \o value[2]
           /\ (pc = "decoded" /\ input = buffer)
                => result.ok /\ result.val = value /\ position = Len(input)

\* C17: a sequence decode accepts FixArray, Array16 and Array32, takes Nil
\* as length 0 and consumes it, and fails with ExpectedArray on any other
\* leading tag; a structure decode accepts FixMap, Map16 and Map32, takes
\* Nil as no fields and consumes it, and fails with ExpectedMap on any
\* other leading tag.
C17_AggregateHeaders ==
    /\ (pc = "raw" /\ shape = <<"seq", <<"u8">>>> /\ Len(input) > 0)
        => /\ input \in {<<144>>, <<220, 0, 0>>, <<221, 0, 0, 0, 0>>, <<192>>}
                => /\ result.ok
                   /\ result.val = <<"seq", <<"u8">>, <<>>>>
                   /\ position = Len(input)
           /\ input \in {<<145, 5>>, <<220, 0, 1, 5>>, <<221, 0, 0, 0, 1, 5>>}
                => result.ok /\ result.val = <<"seq", <<"u8">>, <<U8V(5)>>>>
           /\ input[1] \notin (144..159) \cup {220, 221, 192}
                => ~result.ok /\ result.err = "ExpectedArray"
    /\ (pc = "raw" /\ shape[1] = "struct" /\ Len(input) > 0)
        => /\ (input \in {<<128>>, <<222, 0, 0>>, <<223, 0, 0, 0, 0>>, <<192>>}
               /\ shape[2] = <<>>)
                => /\ result.ok
                   /\ result.val = <<"struct", <<>>, <<>>>>
                   /\ position = Len(input)
           /\ (input \in {<<129, 163, 98, 97, 114, 7>>, <<222, 0, 1, 163, 98, 97, 114, 7>>,
                          <<223, 0, 0, 0, 1, 163, 98, 97, 114, 7>>}
               /\ shape = ShapeOf(Bar(7)))
                => result.ok /\ result.val = Bar(7)
           /\ input[1] \notin (128..143) \cup {222, 223, 192}
                => ~result.ok /\ result.err = "ExpectedMap"

\* the number of code points of well-formed UTF-8: the bytes that are not
\* continuation bytes
CodePoints(bs) == Cardinality({i \in 1..Len(bs) : bs[i] \notin 128..191})

\* C18: a char decode succeeds exactly when the decoded string has one code
\* point, whatever its length in bytes, and fails with ExpectedChar when it
\* has none or several; every char, non-ASCII ones included, is encoded as
\* a one-character string and decodes back to itself.
C18_CharDecode ==
    /\ (/\ pc = "raw"
        /\ shape = <<"char">>
        /\ Len(input) > 0
        /\ input[1] \in 160..191
        /\ Len(input) = input[1] - 159
        /\ Utf8Valid(Tail(input)))
            => IF CodePoints(Tail(input)) = 1
               THEN result.ok /\ result.val = <<"char", Tail(input)>>
               ELSE ~result.ok /\ result.err = "ExpectedChar"
    /\ (pc \in {"encoded", "decoded"} /\ value[1] = "char")
            => /\ buffer = <<160 + Len(value[2])>> \o value[2]
               /\ (pc = "decoded" /\ input = buffer)
                    => result.ok /\ result.val = value


\* C19: an unsigned decode of width W of a whole integer encoding yields the
\* encoded integer v when 0 <= v <= 2^W - 1 (PositiveFixInt, Uint*, and Int*
\* with v >= 0), fails with ExpectedUInteger on NegativeFixInt and on a
\* negative Int* payload, and fails with an overflow Message naming W bits
\* when v > 2^W - 1; every tag that is not an integer tag fails with
\* ExpectedUInteger; a returned value is always a W-bit unsigned value.
C19_UnsignedDecode ==
    (/\ pc = "raw"
     /\ shape[1] \in UnsignedTypes
     /\ Len(input) > 0)
        => LET W == WidthOf(shape[1])
               x == Denoted(input)
           IN  /\ result.ok => result.val[1] = shape[1] /\ Len(result.val[2]) = W
               /\ input[1] \notin IntTags
                    => ~result.ok /\ result.err = "ExpectedUInteger"
               /\ (input[1] \in IntTags /\ Len(input) = 1 + IntPayloadLen(input[1]))
                    => IF input[1] >= 224 \/ (input[1] >= 208 /\ input[2] >= 128)
                       THEN ~result.ok /\ result.err = "ExpectedUInteger"
                       ELSE IF ZeroExt(LowBytes(x, W)) = x
                       THEN result.ok /\ result.val = <<shape[1], LowBytes(x, W)>>
                       ELSE ~result.ok /\ result.err = "Message" /\ result.bits = 8 * W

\* the Int32 encoding of -1 has been decoded as a u64, and has failed
C19_Witness ==
    /\ pc = "raw"
    /\ shape = <<"u64">>
    /\ input = <<210, 255, 255, 255, 255>>
    /\ ~result.ok
    /\ result.err = "ExpectedUInteger"


\* C20: None is encoded as the single byte Nil and Some(v) exactly as v; an
\* optional decode of bytes that begin with Nil consumes that one byte and
\* yields None, and of bytes that begin with any other tag is the decode of
\* the inner value from the same position, wrapped in Some; so the encoding
\* of None decodes to None and the encoding of Some(v) to Some(v), for every
\* v whose encoding does not begin with Nil.
C20_Optional ==
    /\ (pc \in {"encoded", "decoded"} /\ value[1] = "none") => buffer = <<192>>
    /\ (pc \in {"encoded", "decoded"} /\ value[1] = "some") => buffer = to_vec(value[2])
    /\ (pc = "raw" /\ shape[1] = "option" /\ Len(input) > 0)
        => IF input[1] = 192
           THEN /\ position = 1
                /\ Len(input) = 1 => result.ok /\ result.val = <<"none", shape[2]>>
           ELSE /\ result.ok = from_slice(input, shape[2]).ok
                /\ position = from_slice(input, shape[2]).pos
                /\ result.ok => result.val = <<"some", from_slice(input, shape[2]).val>>
                /\ ~result.ok => result.err = from_slice(input, shape[2]).err
    /\ (/\ pc = "decoded"
        /\ input = buffer
        /\ value[1] \in {"none", "some"}
        /\ value[1] = "some" => buffer[1] # 192)
        => result.ok /\ result.val = value /\ position = Len(input)


\* C21: over a sequence whose header declares n elements, a next_element
\* call with a count above zero lowers the count by exactly one and yields
\* the element decoded at the cursor; a call with the count at zero returns
\* end-of-sequence and leaves the cursor, the count and the input alone; the
\* count never increases, and the elements yielded and the count left always
\* add up to n.
C21_ElementCursor ==
    /\ [](pc \in {"seq", "seq_end"}
            => remaining = U32Minus(read_array_length(input, 0).val, Len(value)))
    /\ [][(pc \in {"seq", "seq_end"} /\ pc' \in {"seq", "seq_end", "failed"})
            => /\ remaining' = remaining
                    \/ (remaining # 0 /\ remaining' = U32Minus(remaining, 1))
               /\ input' = input
               /\ remaining # 0
                    => /\ remaining' = U32Minus(remaining, 1)
                       /\ result'.ok = Deserialize(input, position, shape[2]).ok
                       /\ position' = Deserialize(input, position, shape[2]).pos
                       /\ result'.ok
                            => /\ result'.val =
                                    <<"some", Deserialize(input, position, shape[2]).val>>
                               /\ value' = Append(value, result'.val[2])
               /\ remaining = 0
                    => /\ result'.ok /\ result'.val[1] = "none"
                       /\ pc' = "seq_end"
                       /\ position' = position
                       /\ remaining' = 0
                       /\ value' = value]_vars

\* the cursor over the encoding of a sequence of MaxElems elements has
\* yielded them all and has then returned end-of-sequence, at the end of the
\* input
C21_Witness ==
    /\ pc = "seq_end"
    /\ Len(value) = MaxElems
    /\ remaining = 0
    /\ result.val[1] = "none"
    /\ position = Len(input)
    /\ input[1] = 144 + MaxElems


\* the bytes of a string header: the tag and the length field
StrHeaderLen(tag) ==
    CASE tag = 217 -> 2 [] tag = 218 -> 3 [] tag = 219 -> 5 [] OTHER -> 1

StrTags == 160..191 \cup {217, 218, 219}

\* the length a whole string header declares
StrDeclared(buf) ==
    IF buf[1] \in 160..191 THEN buf[1] - 160
    ELSE ToLen(SubSeq(buf, 2, StrHeaderLen(buf[1])))

\* C22: an enum decode of a whole integer encoding of index i yields the
\* i-th declared variant when 0 <= i < the number of variants and fails with
\* ExpectedUInteger when i is negative or not below that number; of a whole
\* string it yields the variant the string names; of any tag that is neither
\* an integer nor a string it fails with Message.
C22_EnumDecode ==
    (/\ pc = "raw"
     /\ shape[1] = "enum"
     /\ Len(input) > 0)
        => /\ (input[1] \in IntTags /\ Len(input) = 1 + IntPayloadLen(input[1]))
                => IF /\ input[1] < 224
                      /\ ~(input[1] >= 208 /\ input[2] >= 128)
                      /\ U64Lt(Denoted(input), FromNat(Len(shape[2])))
                   THEN /\ result.ok
                        /\ result.val = <<"enum", shape[2], ToNat(LowBytes(Denoted(input), 3))>>
                   ELSE ~result.ok /\ result.err = "ExpectedUInteger"
           /\ (/\ input[1] \in StrTags
               /\ Len(input) >= StrHeaderLen(input[1])
               /\ Len(input) = StrHeaderLen(input[1]) + StrDeclared(input))
                => IF \E k \in 1..Len(shape[2]) :
                          shape[2][k] = SubSeq(input, StrHeaderLen(input[1]) + 1, Len(input))
                   THEN /\ result.ok
                        /\ result.val[1] = "enum"
                        /\ shape[2][result.val[3] + 1]
                              = SubSeq(input, StrHeaderLen(input[1]) + 1, Len(input))
                   ELSE ~result.ok
           /\ input[1] \notin IntTags \cup StrTags
                => ~result.ok /\ result.err = "Message"

\* the Uint64 encoding of 2^32, an index far above the three variants, has
\* been decoded as an enum, and has failed
C22_Witness ==
    /\ pc = "raw"
    /\ shape[1] = "enum"
    /\ input = <<207, 0, 0, 0, 1, 0, 0, 0, 0>>
    /\ ~result.ok
    /\ result.err = "ExpectedUInteger"


\* C23: a successful peek_format leaves the cursor where it was, so a run
\* of peeks never moves it and a get_format right after a peek returns the
\* tag the peek returned, one byte further; every other read, and every
\* cursor call, leaves the position no lower than it was and no higher than
\* the length of the buffer.
C23_PeekRestores ==
    [][/\ (pc' = "peeked" /\ result'.ok) => position' = position
       /\ (pc = "peeked" /\ result.ok /\ pc' = "taken")
            => result'.ok /\ result'.val = result.val /\ position' = position + 1
       /\ pc # "idle" => position <= position' /\ position' <= Len(input)]_vars

\* a tag has been peeked in the middle of a buffer, after reads
C23_Witness ==
    /\ pc = "peeked"
    /\ result.ok
    /\ result.val.name = "Nil"
    /\ position = 2
    /\ Len(input) > 3


\* the header an aggregate with n pushed entries and the buffered body gets
AggregateHeader(kind, n, body) ==
    CASE kind = "array"  -> ArrayPrefix(n)
      [] kind = "struct" -> MapPrefix(n)
      [] kind = "map"    -> ExtLenHeader(Len(MapPrefix(n)) + Len(body)) \o <<1>> \o MapPrefix(n)

\* C24: from the begin to the end of an array, struct or generic map the
\* buffer of the parent encoder does not change, the sub-encoder holds the
\* encodings of what was pushed, in push order, and end appends to the
\* parent exactly the header (with the envelope, for a generic map) followed
\* by that body; when an element fails to encode, the parent is left as it
\* was at begin and no end follows.
C24_SubEncoderAtomic ==
    /\ [](pc \in {"open", "map_value", "ended"}
            => sub_buffer = Concat([i \in 1..Len(value) |-> to_vec(value[i])]))
    /\ [][/\ (pc \in {"open", "map_value"} /\ pc' \in {"open", "map_value", "enc_failed"})
                => buffer' = buffer
          /\ (pc = "open" /\ pc' = "ended")
                => buffer' = buffer \o AggregateHeader(shape[1], pushed, sub_buffer)
                                    \o sub_buffer
          /\ pc = "enc_failed" => pc' = "enc_failed" /\ buffer' = buffer]_vars

\* a generic map of two entries has ended over a parent that held four
\* bytes, which are still its first four
C24_Witness ==
    /\ pc = "ended"
    /\ shape = <<"map">>
    /\ pushed = 2
    /\ Len(sub_buffer) > 4
    /\ SubSeq(buffer, 1, 4) = <<146, 162, 104, 105>>
    /\ buffer[5] = 199


\* a length prefix: the fix form below 16, a 2-byte big-endian length up to
\* 65535, a 4-byte one above
LengthPrefix(n, fix, tag16, tag32) ==
    IF n < 16 THEN <<fix + n>>
    ELSE IF n <= 65535 THEN <<tag16, n \div 256, n % 256>>
    ELSE <<tag32, n \div 16777216, (n \div 65536) % 256, (n \div 256) % 256, n % 256>>

\* the prefix of an array, or of a struct or inner map, of n entries
PrefixFor(kind, n) ==
    IF kind = "array" THEN LengthPrefix(n, 144, 220, 221)
    ELSE LengthPrefix(n, 128, 222, 223)

\* C25: the length in the header of an array, struct or inner map is the
\* number of elements, fields or keys pushed before end, and the header
\* stands right before the buffered body; the prefix is FixArray/FixMap for
\* a length below 16, Array16/Map16 with a 2-byte big-endian length up to
\* 65535, and Array32/Map32 with a 4-byte length above.
C25_LengthPrefix ==
    /\ pc = "length_written" => buffer = PrefixFor(shape[1], pushed)
    /\ pc = "ended"
        => /\ pushed = IF shape[1] = "array" THEN Len(value) ELSE Len(value) \div 2
           /\ SubSeq(buffer,
                     Len(buffer) - Len(sub_buffer) - Len(PrefixFor(shape[1], pushed)) + 1,
                     Len(buffer) - Len(sub_buffer))
                = PrefixFor(shape[1], pushed)
           /\ SubSeq(buffer, Len(buffer) - Len(sub_buffer) + 1, Len(buffer)) = sub_buffer

\* an array of 16 elements has ended: its header is Array16 with length 16
C25_Witness ==
    /\ pc = "ended"
    /\ shape = <<"array">>
    /\ Len(value) = 16
    /\ buffer = <<220, 0, 16>> \o sub_buffer


\* C26: a struct decode of bytes that begin with an extension header fails
\* with ExpectedMap, and a generic-map decode of bytes that begin with a
\* FixMap, Map16 or Map32 header fails with ExpectedExt; neither yields a
\* value, so the encoding of a map is not accepted as a struct nor that of
\* a struct as a map.
C26_StructMapAsymmetry ==
    (pc = "raw" /\ Len(input) > 0)
        => /\ (shape[1] = "struct" /\ input[1] \in ExtTags)
                => ~result.ok /\ result.err = "ExpectedMap" /\ result.val = <<>>
           /\ (shape[1] = "map" /\ input[1] \in MapPrefixes)
                => ~result.ok /\ result.err = "ExpectedExt" /\ result.val = <<>>

\* the encoding of the map {"Hello": 1} has been decoded as struct
\* Bar { bar: u16 }, and has failed with ExpectedMap
C26_Witness ==
    /\ pc = "raw"
    /\ shape = ShapeOf(Bar(2))
    /\ input = <<199, 8, 1, 129, 165, 72, 101, 108, 108, 111, 1>>
    /\ ~result.ok
    /\ result.err = "ExpectedMap"


\* C27: a decode ends after a number of cursor calls bounded by the size of
\* the input: the elements and entries a cursor has yielded are never more
\* than the bytes of the buffer, whatever count the header declares.
C27_DecodeBounded ==
    pc \in {"seq", "seq_end", "key", "val", "map_end", "failed", "duplicate"}
        => Len(value) <= Len(input)


\* a <= b on u32s held by their bits
U32Le(a, b) == IF (a < 0) = (b < 0) THEN a <= b ELSE b < 0

\* the entry count the header of the opened map or structure declares
DeclaredEntries ==
    IF shape[1] = "struct" THEN read_map_length(input, 0).val
    ELSE map_length_after_ext(read_ext_length_and_type(input, 0), input).val

\* C29: on a map or structure whose header declares n entries, with
\* next_key and next_value called in turn, the keys yielded and the entries
\* still counted add up to n, a value is read only while the count is above
\* zero, each value read takes the count down by exactly one, and
\* end-of-map comes after exactly n keys.
C29_EntryCounter ==
    /\ [](/\ pc \in {"key", "val", "map_end", "duplicate"}
              => U32Le(remaining, DeclaredEntries)
          /\ pc = "key" => remaining = U32Minus(DeclaredEntries, Len(value))
          /\ pc = "val" => /\ remaining # 0
                          /\ remaining = U32Minus(DeclaredEntries, Len(value) - 1)
          /\ pc = "map_end" => remaining = 0 /\ Len(value) = DeclaredEntries)
    /\ [][/\ pc = "val" => remaining' = U32Minus(remaining, 1)
          /\ pc \in {"key", "map_end"} => remaining' = remaining
          /\ (pc = "key" /\ remaining = 0) => pc' = "map_end"
          /\ (pc = "key" /\ remaining # 0 /\ result'.ok)
                => result'.val[1] = "some" /\ Len(value') = Len(value) + 1]_vars

\* a structure of two entries read to its end: two keys, two values, then
\* end-of-map with the count at zero
C29_Witness ==
    /\ pc = "map_end"
    /\ shape[1] = "struct"
    /\ input[1] = 130
    /\ Len(value) = 2
    /\ Len(value[2]) = 2
    /\ remaining = 0


\* the 64-bit word serialize_u8..u64 / serialize_i8..i64 hand on
IntWord(v) == IF v[1] \in UnsignedTypes THEN ZeroExt(v[2]) ELSE SignExt(v[2])

\* C30: no integer encode stops on an assertion of the fix-int writers: the
\* encoding of a value never holds the aborted write, a one-byte positive
\* fixint stands only for a value below 128 and a one-byte negative fixint
\* only for a value in -32..-1, and WriteEncoder's write_u64 / write_i64
\* write the same bytes without aborting.
C30_FixIntAsserts ==
    pc = "encoded" =>
        /\ \A i \in 1..Len(buffer) : buffer[i] # Abort[1]
        /\ value[1] \in IntTypes =>
            /\ (Len(buffer) = 1 /\ buffer[1] < 128)
                  <=> U64Lt(IntWord(value), Bit(7))
            /\ (Len(buffer) = 1 /\ buffer[1] >= 224)
                  <=> (value[1] \in SignedTypes
                       /\ I64Lt(IntWord(value), ZeroWord)
                       /\ I64Le(Not(Ones(5)), IntWord(value)))
            /\ Len(buffer) = 1 => IntWord(value) = SignExt(buffer)
            /\ buffer = IF value[1] \in UnsignedTypes THEN write_u64(IntWord(value))
                        ELSE write_i64(IntWord(value))

\* the i64 -32, the lowest value of the negative fixint arm, written as 0xe0
C30_Witness ==
    /\ pc = "encoded"
    /\ value = <<"i64", Not(Ones(5))>>
    /\ buffer = <<224>>

=============================================================================
